---- MODULE Spec2Model ----
(***************************************************************************)
(* AI Task Extractor (browser extension): the extraction orchestrator of   *)
(* the popup (handleExtract + extractTasks), the usage quota kept in       *)
(* chrome.storage.local, and the extension contexts that share that        *)
(* storage: popup documents, the options page and the service worker.      *)
(*                                                                         *)
(* Every popup document is one process.  A handler is cut into steps at    *)
(* the awaits where another context can touch the shared storage; awaits   *)
(* on purely local or environment data (tab query, page content, reading   *)
(* the HTTP body) are merged into the step that follows them.              *)
(* chrome.storage.local reads and writes are assumed not to fail, and a    *)
(* popup is not closed while one of its handlers is running.               *)
(***************************************************************************)
EXTENDS Integers, Sequences, FiniteSets, TLC

\* ----- bounds of the model ------------------------------------------------
NumPopups == 2      \* popup documents open at the same time
MaxDay == 2         \* calendar days the clock runs through
MaxCount == 7       \* no new extraction starts once the stored count is here
MaxDone == 8        \* no new extraction starts once today's tally of finished ones is here

\* ----- program constants --------------------------------------------------
DailyLimit == 5

Popups == 1..NumPopups

VARIABLES
  today,          \* new Date().toISOString().split('T')[0], as a day number
  usageStore,     \* chrome.storage.local['ate_usage']
  settingsStore,  \* chrome.storage.local['ate_settings'] merged over DEFAULT_SETTINGS
  pc,             \* per popup: where its running handler is suspended
  view,           \* per popup: useState view
  settings,       \* per popup: useState settings (snapshot of the store)
  usage,          \* per popup: useState usage = last canExtract() result
  error,          \* per popup: useState error
  tasks,          \* per popup: useState tasks
  previousTasks,  \* per popup: useState previousTasks
  usageLocal,     \* per popup: local `usage` of a running incrementUsage
  call,           \* per popup: observation of the current / last handleExtract call
  doneToday,      \* successful extractions of non-Pro calls finished today
  response,       \* extractTasks: `response`, the raw completion, as lexical pieces
  payload,        \* the elements of the tasks array an object piece of `response` carries
  jsonStr,        \* extractTasks: `jsonStr`
  parsed,         \* extractTasks: `parsed`
  mapped,         \* the tasks parsed.tasks.map has produced so far
  outcome,        \* where extractTasks' try block is / how it ended
  now,            \* Date.now()
  promptArgs,     \* the arguments of a buildExtractionPrompt call
  prompt,         \* the string that call returned
  resetRecord,    \* chrome.storage.local['usage'], the key the daily-reset alarm writes
  license,        \* licenseKey and licenseEmail of chrome.storage.local['ate_settings']
  inbox,          \* the external message the service worker is handling, with its sender
  swSettings,     \* onMessageExternal: `settings`, as read by chrome.storage.local.get
  reply,          \* what sendResponse was called with
  extractions,    \* chrome.storage.local['ate_extractions']
  deviceIdStore,  \* chrome.storage.local['ate_device_id'], "" while there is none
  deviceCall,     \* per caller: where its getDeviceId call is, and its local deviceId
  deviceIds,      \* the identifiers getDeviceId calls have returned so far
  consent,        \* chrome.storage.local['ate_analytics_consent']: "unset", "true", "false"
  queueStore,     \* chrome.storage.local['ate_analytics_queue'].events
  trackCall,      \* per caller: where its track call is, its local queue and event
  flushCall,      \* per flushQueue call: where it is, and the batch it has read
  disableCall,    \* where the disableAnalytics call is
  eventsMade,     \* events created so far
  rows,           \* the result view's popup: useState tasks, field by field
  previousRows,   \* the result view's popup: useState previousTasks (set: not null)
  opsLog,         \* the last operation on the task list, and the list before it
  pageInfo,       \* the result view's popup: useState pageInfo (its title, or "null")
  integrationKeys, \* the integrations whose keys the popup's settings hold
  emitted,        \* the last handleExport call and what its formatter or exporter put out
  saveLog         \* the saveExtraction calls so far, in call order: the sourceUrl, and
                  \* whether the call was made before the cache came under observation

vars == <<today, usageStore, settingsStore, pc, view, settings, usage,
          error, tasks, previousTasks, usageLocal, call, doneToday,
          response, payload, jsonStr, parsed, mapped, outcome, now, promptArgs, prompt,
          resetRecord, license, inbox, swSettings, reply, extractions, saveLog,
          deviceIdStore, deviceCall, deviceIds,
          consent, queueStore, trackCall, flushCall, disableCall, eventsMade,
          rows, previousRows, opsLog, pageInfo, integrationKeys, emitted>>

appVars == <<today, usageStore, settingsStore, pc, view, settings, usage,
             error, tasks, previousTasks, usageLocal, call, doneToday>>

\* extractTasks' parsing (ai.ts) and the prompt builder (prompts.ts), which are
\* exercised on their own
aiVars == <<response, payload, jsonStr, parsed, mapped, outcome, now>>
promptVars == <<promptArgs, prompt>>
\* the state of the service worker, which the popup never touches
workerVars == <<resetRecord, license, inbox, swSettings, reply>>
\* the cache of extraction results
cacheVars == <<extractions, saveLog>>
\* the device id
deviceVars == <<deviceIdStore, deviceCall, deviceIds>>
\* analytics.ts
analyticsVars == <<consent, queueStore, trackCall, flushCall, disableCall, eventsMade>>
\* the result view
editVars == <<rows, previousRows, opsLog, pageInfo, integrationKeys, emitted>>
moreVars == <<workerVars, cacheVars, deviceVars, analyticsVars, editVars>>
libVars == <<aiVars, promptVars, moreVars>>

popupVars == <<pc, view, settings, usage, error, tasks, previousTasks, usageLocal, call>>

\* ----- storage.ts ----------------------------------------------------------
\* result[STORAGE_KEYS.USAGE] undefined: no record has been stored yet
NoUsage == [date |-> 0, extractionsCount |-> 0]

DEFAULT_SETTINGS ==
  [aiProvider |-> "openai", openaiApiKey |-> "", anthropicApiKey |-> "", isPro |-> FALSE]

\* getUsage without the date comparison of line 115
getUsageIgnoringDate(stored, day) ==
  IF stored = NoUsage
    THEN [date |-> day, extractionsCount |-> 0]
    ELSE stored

\* getUsage(): a missing record or one of another date reads as count 0 of today
getUsage(stored, day) ==
  IF stored = NoUsage \/ stored.date # day
    THEN [date |-> day, extractionsCount |-> 0]
    ELSE stored

\* incrementUsage(): the record written from the one getUsage returned
incrementUsage(read) ==
  [read EXCEPT !.extractionsCount = read.extractionsCount + 1]

Max(a, b) == IF a > b THEN a ELSE b

\* canExtract(): Pro is always allowed; otherwise remaining = limit - count
canExtract(stored, day, st) ==
  IF st.isPro
    THEN [allowed |-> TRUE, remaining |-> -1]
    ELSE LET remaining == DailyLimit - getUsage(stored, day).extractionsCount
         IN  [allowed |-> remaining > 0, remaining |-> Max(0, remaining)]

\* ----- ai.ts ---------------------------------------------------------------
OPENAI_URL == "https://api.openai.com/v1/chat/completions"
ANTHROPIC_URL == "https://api.anthropic.com/v1/messages"

\* A completion is kept as what extractJSON + JSON.parse make of it: whether the
\* extracted string is valid JSON, whether the parsed value has a `tasks`
\* array, and the elements of that array.
Completions ==
  { [valid |-> FALSE, hasTasks |-> FALSE, items |-> <<>>],
    [valid |-> TRUE,  hasTasks |-> FALSE, items |-> <<>>],
    [valid |-> TRUE,  hasTasks |-> TRUE,  items |-> <<>>],
    [valid |-> TRUE,  hasTasks |-> TRUE,  items |-> <<[title |-> "a"]>>] }

NoCompletion == [valid |-> FALSE, hasTasks |-> FALSE, items |-> <<>>]

\* What one HTTP exchange with the provider can come to.
\*   network : fetch rejects (transport failure)
\*   status  : a response with response.ok false
\*   envelope: a 2xx response whose JSON has no choices[0] / content[0]
\*   text    : a 2xx response carrying the completion `text`
Exchanges ==
  { [kind |-> k, text |-> NoCompletion] : k \in {"network", "status", "envelope"} }
  \cup { [kind |-> "text", text |-> t] : t \in Completions }

\* a key lookup that does not look at the selected provider
apiKeyOpenAIOnly(st) == st.openaiApiKey

\* The selected provider's key (extractTasks 109-111, handleExtract 117-119)
apiKey(st) ==
  IF st.aiProvider = "openai" THEN st.openaiApiKey ELSE st.anthropicApiKey

\* a dispatch that does not look at the selected provider
callAIOpenAIOnly(provider) == <<OPENAI_URL>>

\* callAI: the one endpoint the request of this call goes to
callAI(provider) == IF provider = "openai" THEN <<OPENAI_URL>> ELSE <<ANTHROPIC_URL>>

\* the adapters without the response.ok check of lines 34-37 and 59-62: the
\* body of a non-2xx response is handed on as if it were the completion
adapterResultNoStatusCheck(provider, x) ==
  CASE x.kind = "network"  ->
         [ok |-> FALSE, text |-> NoCompletion, error |-> "Failed to fetch"]
    [] x.kind = "status"   -> [ok |-> TRUE, text |-> NoCompletion, error |-> ""]
    [] x.kind = "envelope" ->
         [ok |-> FALSE, text |-> NoCompletion,
          error |-> "Cannot read properties of undefined"]
    [] x.kind = "text"     -> [ok |-> TRUE, text |-> x.text, error |-> ""]

\* callOpenAI / callAnthropic once the exchange has ended: the completion text,
\* or the error thrown (lines 34-40 and 59-65)
adapterResult(provider, x) ==
  CASE x.kind = "network"  ->
         [ok |-> FALSE, text |-> NoCompletion, error |-> "Failed to fetch"]
    [] x.kind = "status"   ->
         [ok |-> FALSE, text |-> NoCompletion,
          error |-> IF provider = "openai" THEN "OpenAI API error: <body>"
                                           ELSE "Anthropic API error: <body>"]
    [] x.kind = "envelope" ->
         [ok |-> FALSE, text |-> NoCompletion,
          error |-> "Cannot read properties of undefined"]
    [] x.kind = "text"     -> [ok |-> TRUE, text |-> x.text, error |-> ""]

\* lines 122-188: JSON.parse throws on invalid JSON, parsed.tasks.map throws
\* when there is no tasks array; both are caught at line 186.  Otherwise one
\* task per element, selected.
normalize(text) ==
  IF text.valid /\ text.hasTasks
    THEN [ok |-> TRUE,
          tasks |-> [i \in 1..Len(text.items) |->
                       [title |-> text.items[i].title, selected |-> TRUE]]]
    ELSE [ok |-> FALSE, tasks |-> <<>>]

\* ----- error messages shown by the popup --------------------------------------
QUOTA_ERROR == "Daily limit reached. Upgrade to Pro for unlimited extractions."
KEY_ERROR_POPUP(st) ==
  IF st.aiProvider = "openai" THEN "Please configure your OpenAI API key in settings."
                              ELSE "Please configure your Anthropic API key in settings."
KEY_ERROR_AI(st) ==
  IF st.aiProvider = "openai" THEN "Please configure your OpenAI API key in settings"
                              ELSE "Please configure your Anthropic API key in settings"
NO_TAB_ERROR == "No active tab"
NO_CONTENT_ERROR == "Could not extract page content. Try refreshing the page."
PARSE_ERROR == "Failed to parse AI response. Please try again."
NO_TASKS_ERROR ==
  "No tasks found. Try a different page or selection with action items or meeting notes."

\* ----- Popup.tsx: component state -----------------------------------------------
\* useState<Settings | null>(null)
NoSettings ==
  [aiProvider |-> "null", openaiApiKey |-> "", anthropicApiKey |-> "", isPro |-> FALSE]

\* useState usage: { allowed: true, remaining: 5 }
InitialUsage == [allowed |-> TRUE, remaining |-> 5]

\* previousTasks === null
NoTasks == <<"null">>

\* What is observed of the handleExtract call a popup is running or has just
\* ended; NoCall once the popup has left the result or error view.
\*   result     : "none", "running", "ok" or "fail"
\*   error      : the message the failed call set
\*   steps      : the steps of the call, in the order they were started
\*   requests   : the provider endpoints HTTP requests were sent to
\*   usageWrites: writes of the call to the stored usage record
\*   normalized : extractTasks returned a task list
\*   exchange   : how the HTTP exchange of the call ended ("none" before that)
NoCall ==
  [result |-> "none", error |-> "", steps |-> <<>>, requests |-> <<>>,
   usageWrites |-> 0, normalized |-> FALSE,
   exchange |-> [kind |-> "none", text |-> NoCompletion]]

\* The settings the options page can save
SettingsChoices ==
  [aiProvider : {"openai", "anthropic"}, openaiApiKey : {"", "sk-o"},
   anthropicApiKey : {"", "sk-a"}, isPro : BOOLEAN]

\* Nothing is being parsed, no prompt is being built
NoArgs ==
  [pageText |-> <<>>, source |-> "none", content |-> <<>>, title |-> <<>>,
   mode |-> "general", rules |-> <<>>]

aiIdle ==
  /\ response = <<>>
  /\ payload = <<>>
  /\ jsonStr = <<>>
  /\ parsed = NoCompletion
  /\ mapped = <<>>
  /\ outcome = "idle"
  /\ now = 0

promptIdle ==
  /\ promptArgs = NoArgs
  /\ prompt = <<>>

\* the key 'usage' has never been written
NoReset == [date |-> 0, count |-> 0]

\* DEFAULT_SETTINGS.licenseKey is '', and there is no licenseEmail
NoLicense == [licenseKey |-> "", licenseEmail |-> ""]

\* no external message is being handled
NoMessage == [origin |-> <<>>, type |-> "none", email |-> "", licenseKey |-> ""]

NoReply == [sent |-> FALSE, success |-> FALSE, error |-> ""]

workerIdle ==
  /\ resetRecord = NoReset
  /\ license = NoLicense
  /\ inbox = NoMessage
  /\ swSettings = NoSettings
  /\ reply = NoReply

cacheIdle ==
  /\ extractions = <<>>
  /\ saveLog = <<>>

MaxCallers == 3     \* getDeviceId calls that can overlap

Callers == 1..MaxCallers

NoDeviceCall == [pc |-> "idle", deviceId |-> ""]

deviceIdle ==
  /\ deviceIdStore = ""
  /\ deviceCall = [c \in Callers |-> NoDeviceCall]
  /\ deviceIds = {}

MaxTrackers == 2    \* track calls that can overlap
MaxFlushes == 2     \* flushQueue calls that can overlap
MaxEvents == 3      \* events created

Trackers == 1..MaxTrackers
Flushers == 1..MaxFlushes

NoTrack == [pc |-> "idle", queue |-> <<>>, event |-> 0]
NoFlush == [pc |-> "idle", batch |-> <<>>]

analyticsIdle ==
  /\ consent = "unset"
  /\ queueStore = <<>>
  /\ trackCall = [t \in Trackers |-> NoTrack]
  /\ flushCall = [f \in Flushers |-> NoFlush]
  /\ disableCall = "idle"
  /\ eventsMade = 0

\* previousTasks === null
NoRows == [set |-> FALSE, rows |-> <<>>]

\* no operation yet.  kind: the operation; before: the task list just before
\* it; shown: the list the result view showed last before a reset; ops and
\* lists: operations and extractions so far
NoOps == [kind |-> "none", before |-> <<>>, shown |-> <<>>, ops |-> 0, lists |-> 0]

\* handleExport has not been called.  called: the formatter or exporter was
\* invoked; out: the tasks it put out, in the order of its output; rejected: a
\* request or the clipboard write was rejected; ended: the view it ended in
NoExport ==
  [destination |-> "none", from |-> <<>>, isPro |-> FALSE, called |-> FALSE,
   out |-> <<>>, rejected |-> FALSE, ended |-> "none"]

editIdle ==
  /\ rows = <<>>
  /\ previousRows = NoRows
  /\ opsLog = NoOps
  /\ pageInfo = "null"
  /\ integrationKeys = {}
  /\ emitted = NoExport

moreIdle == workerIdle /\ cacheIdle /\ deviceIdle /\ analyticsIdle /\ editIdle

Init ==
  /\ today = 1
  /\ usageStore = NoUsage
  /\ settingsStore = DEFAULT_SETTINGS
  /\ pc = [p \in Popups |-> "closed"]
  /\ view = [p \in Popups |-> "idle"]
  /\ settings = [p \in Popups |-> NoSettings]
  /\ usage = [p \in Popups |-> InitialUsage]
  /\ error = [p \in Popups |-> ""]
  /\ tasks = [p \in Popups |-> <<>>]
  /\ previousTasks = [p \in Popups |-> NoTasks]
  /\ usageLocal = [p \in Popups |-> NoUsage]
  /\ call = [p \in Popups |-> NoCall]
  /\ doneToday = 0
  /\ aiIdle
  /\ promptIdle
  /\ moreIdle

\* ----- Popup.tsx: mounting and closing ---------------------------------------------
\* useEffect -> loadInitialData(): getSettings() and canExtract() read the store,
\* then setSettings and setUsage
loadInitialData(p) ==
  /\ pc[p] = "closed"
  /\ settings' = [settings EXCEPT ![p] = settingsStore]
  /\ usage' = [usage EXCEPT ![p] = canExtract(usageStore, today, settingsStore)]
  /\ pc' = [pc EXCEPT ![p] = "ready"]
  /\ UNCHANGED <<today, usageStore, settingsStore, view, error, tasks, previousTasks,
                 usageLocal, call, doneToday>>
  /\ UNCHANGED libVars

\* The popup document is closed: its component state is gone
closePopup(p) ==
  /\ pc[p] = "ready"
  /\ pc' = [pc EXCEPT ![p] = "closed"]
  /\ view' = [view EXCEPT ![p] = "idle"]
  /\ settings' = [settings EXCEPT ![p] = NoSettings]
  /\ usage' = [usage EXCEPT ![p] = InitialUsage]
  /\ error' = [error EXCEPT ![p] = ""]
  /\ tasks' = [tasks EXCEPT ![p] = <<>>]
  /\ previousTasks' = [previousTasks EXCEPT ![p] = NoTasks]
  /\ call' = [call EXCEPT ![p] = NoCall]
  /\ UNCHANGED <<today, usageStore, settingsStore, usageLocal, doneToday>>
  /\ UNCHANGED libVars

\* ----- Popup.tsx: handleExtract ------------------------------------------------------
\* line 111: the quota gate reads the popup's usage state
quotaGate(u) == u.allowed

\* the failure path: setError(msg); setView('error')
failCall(p, msg, c) ==
  /\ error' = [error EXCEPT ![p] = msg]
  /\ view' = [view EXCEPT ![p] = "error"]
  /\ pc' = [pc EXCEPT ![p] = "ready"]
  /\ call' = [call EXCEPT ![p] = [c EXCEPT !.result = "fail", !.error = msg]]

\* handleExtract with the key check placed before the quota gate
handleExtractKeyFirst(p) ==
  /\ pc[p] = "ready"
  /\ view[p] = "idle"
  /\ settings[p] # NoSettings
  /\ usageStore.extractionsCount < MaxCount
  /\ doneToday < MaxDone
  /\ LET c0 == [NoCall EXCEPT !.result = "running", !.steps = <<"key">>]
         c1 == [c0 EXCEPT !.steps = <<"key", "quota">>]
     IN  IF apiKey(settings[p]) = ""
           THEN failCall(p, KEY_ERROR_POPUP(settings[p]), c0)
           ELSE IF ~quotaGate(usage[p])
             THEN failCall(p, QUOTA_ERROR, c1)
             ELSE /\ view' = [view EXCEPT ![p] = "extracting"]
                  /\ error' = [error EXCEPT ![p] = ""]
                  /\ pc' = [pc EXCEPT ![p] = "acquire"]
                  /\ call' = [call EXCEPT ![p] = c1]
  /\ UNCHANGED <<today, usageStore, settingsStore, settings, usage, tasks,
                 previousTasks, usageLocal, doneToday>>
  /\ UNCHANGED libVars

\* lines 108-136: the synchronous head of handleExtract, up to the tab query
handleExtract(p) ==
  /\ pc[p] = "ready"
  /\ view[p] = "idle"
  /\ settings[p] # NoSettings
  /\ usageStore.extractionsCount < MaxCount
  /\ doneToday < MaxDone
  /\ LET c0 == [NoCall EXCEPT !.result = "running", !.steps = <<"quota">>]
         c1 == [c0 EXCEPT !.steps = <<"quota", "key">>]
     IN  IF ~quotaGate(usage[p])
           THEN failCall(p, QUOTA_ERROR, c0)
           ELSE IF apiKey(settings[p]) = ""
             THEN failCall(p, KEY_ERROR_POPUP(settings[p]), c1)
             ELSE /\ view' = [view EXCEPT ![p] = "extracting"]
                  /\ error' = [error EXCEPT ![p] = ""]
                  /\ pc' = [pc EXCEPT ![p] = "acquire"]
                  /\ call' = [call EXCEPT ![p] = c1]
  /\ UNCHANGED <<today, usageStore, settingsStore, settings, usage, tasks,
                 previousTasks, usageLocal, doneToday>>
  /\ UNCHANGED libVars

\* lines 136-155 and extractTasks 109-120: the active tab and the page content
\* (or the selected text) are obtained, then extractTasks checks the key,
\* builds the prompt and sends the request
acquireContent(p, got) ==
  /\ pc[p] = "acquire"
  /\ LET c0 == [call[p] EXCEPT !.steps = Append(@, "content")]
         c1 == [c0 EXCEPT !.steps = Append(@, "key")]
         c2 == [c1 EXCEPT !.steps = @ \o <<"prompt", "provider">>,
                          !.requests = @ \o callAI(settings[p].aiProvider)]
     IN  CASE got = "no tab" -> failCall(p, NO_TAB_ERROR, c0)
           [] got = "no content" -> failCall(p, NO_CONTENT_ERROR, c0)
           [] OTHER ->
                IF apiKey(settings[p]) = ""
                  THEN failCall(p, KEY_ERROR_AI(settings[p]), c1)
                  ELSE /\ pc' = [pc EXCEPT ![p] = "calling"]
                       /\ call' = [call EXCEPT ![p] = c2]
                       /\ UNCHANGED <<view, error>>
  /\ UNCHANGED <<today, usageStore, settingsStore, settings, usage, tasks,
                 previousTasks, usageLocal, doneToday>>
  /\ UNCHANGED libVars

\* handleExtract without the empty-list check of lines 157-161
noTasksFoundNever(ts) == FALSE

\* line 157: an empty task list is reported as an error
noTasksFound(ts) == Len(ts) = 0

\* lines 155-171: extractTasks resumes with the end of the HTTP exchange
\* (callOpenAI / callAnthropic 34-40, extractTasks 122-188); an empty task list
\* is an error; otherwise the tasks are put into the state and incrementUsage
\* is called, which reads the clock and asks the store for the usage record
providerResponds(p, x) ==
  /\ pc[p] = "calling"
  /\ LET r  == adapterResult(settings[p].aiProvider, x)
         n  == normalize(r.text)
         c0 == [call[p] EXCEPT !.exchange = x]
         c1 == [c0 EXCEPT !.steps = Append(@, "normalize")]
         c2 == [c1 EXCEPT !.normalized = TRUE]
         c3 == [c2 EXCEPT !.steps = Append(@, "commit")]
     IN  IF ~r.ok
           THEN failCall(p, r.error, c0) /\ UNCHANGED <<tasks, previousTasks, usageLocal>>
           ELSE IF ~n.ok
             THEN failCall(p, PARSE_ERROR, c1) /\ UNCHANGED <<tasks, previousTasks, usageLocal>>
             ELSE IF noTasksFound(n.tasks)
               THEN failCall(p, NO_TASKS_ERROR, c2)
                    /\ UNCHANGED <<tasks, previousTasks, usageLocal>>
               ELSE /\ previousTasks' = IF Len(tasks[p]) > 0
                                          THEN [previousTasks EXCEPT ![p] = tasks[p]]
                                          ELSE previousTasks
                    /\ tasks' = [tasks EXCEPT ![p] = n.tasks]
                    /\ usageLocal' = [usageLocal EXCEPT
                                        ![p] = [date |-> today, extractionsCount |-> 0]]
                    /\ pc' = [pc EXCEPT ![p] = "incGet"]
                    /\ call' = [call EXCEPT ![p] = c3]
                    /\ UNCHANGED <<view, error>>
  /\ UNCHANGED <<today, usageStore, settingsStore, settings, usage, doneToday>>
  /\ UNCHANGED libVars

\* incrementUsage line 123: the store answers getUsage's read
incrementUsageRead(p) ==
  /\ pc[p] = "incGet"
  /\ usageLocal' = [usageLocal EXCEPT ![p] = getUsage(usageStore, usageLocal[p].date)]
  /\ pc' = [pc EXCEPT ![p] = "incSet"]
  /\ UNCHANGED <<today, usageStore, settingsStore, view, settings, usage, error, tasks,
                 previousTasks, call, doneToday>>
  /\ UNCHANGED libVars

\* incrementUsage lines 124-128: the updated record is written
incrementUsageWrite(p) ==
  /\ pc[p] = "incSet"
  /\ usageStore' = incrementUsage(usageLocal[p])
  /\ usageLocal' = [usageLocal EXCEPT ![p] = NoUsage]
  /\ pc' = [pc EXCEPT ![p] = "refresh"]
  /\ call' = [call EXCEPT ![p].usageWrites = @ + 1]
  /\ UNCHANGED <<today, settingsStore, view, settings, usage, error, tasks,
                 previousTasks, doneToday>>
  /\ UNCHANGED libVars

\* the tail of handleExtract ending in its catch block after the increment
finishExtractThrows(p) ==
  /\ pc[p] = "refresh"
  /\ usage' = [usage EXCEPT ![p] = canExtract(usageStore, today, settingsStore)]
  /\ failCall(p, "Extraction failed", call[p])
  /\ UNCHANGED <<today, usageStore, settingsStore, settings, tasks,
                 previousTasks, usageLocal, doneToday>>
  /\ UNCHANGED libVars

\* lines 172-196: canExtract() re-read into the usage state, the extraction
\* saved to the cache and the history, setView('results')
finishExtract(p) ==
  /\ pc[p] = "refresh"
  /\ usage' = [usage EXCEPT ![p] = canExtract(usageStore, today, settingsStore)]
  /\ view' = [view EXCEPT ![p] = "results"]
  /\ pc' = [pc EXCEPT ![p] = "ready"]
  /\ call' = [call EXCEPT ![p].result = "ok"]
  /\ doneToday' = IF settings[p].isPro THEN doneToday ELSE doneToday + 1
  /\ UNCHANGED <<today, usageStore, settingsStore, settings, error, tasks,
                 previousTasks, usageLocal>>
  /\ UNCHANGED libVars

\* lines 333-338
handleReset(p) ==
  /\ pc[p] = "ready"
  /\ view[p] \in {"error", "results"}
  /\ view' = [view EXCEPT ![p] = "idle"]
  /\ tasks' = [tasks EXCEPT ![p] = <<>>]
  /\ error' = [error EXCEPT ![p] = ""]
  /\ call' = [call EXCEPT ![p] = NoCall]
  /\ UNCHANGED <<today, usageStore, settingsStore, pc, settings, usage,
                 previousTasks, usageLocal, doneToday>>
  /\ UNCHANGED libVars

\* ----- the other contexts --------------------------------------------------------
\* Options page handleSave -> saveSettings(settings)
saveSettings(s) ==
  /\ s # settingsStore
  /\ settingsStore' = s
  /\ UNCHANGED <<today, usageStore, doneToday>>
  /\ UNCHANGED popupVars
  /\ UNCHANGED libVars

\* The calendar date changes
midnight ==
  /\ today < MaxDay
  /\ today' = today + 1
  /\ doneToday' = 0
  /\ UNCHANGED <<usageStore, settingsStore>>
  /\ UNCHANGED popupVars
  /\ UNCHANGED libVars

\* One step of the popup document p
popupStep(p) ==
  \/ loadInitialData(p)
  \/ closePopup(p)
  \/ handleExtract(p)
  \/ \E got \in {"no tab", "no content", "content"} : acquireContent(p, got)
  \/ \E x \in Exchanges : providerResponds(p, x)
  \/ incrementUsageRead(p)
  \/ incrementUsageWrite(p)
  \/ finishExtract(p)
  \/ handleReset(p)

\* One popup document, the options page and the clock
Next ==
  \/ popupStep(1)
  \/ \E s \in SettingsChoices : saveSettings(s)
  \/ midnight

Spec == Init /\ [][Next]_vars

\* Several popup documents of a free-tier user share the store, within one day.
\* The extension has been configured on the options page before.
SharedSettings ==
  { [aiProvider |-> "openai", openaiApiKey |-> "sk-o", anthropicApiKey |-> "",
     isPro |-> FALSE],
    [aiProvider |-> "anthropic", openaiApiKey |-> "sk-o", anthropicApiKey |-> "",
     isPro |-> FALSE] }

InitShared ==
  /\ today = 1
  /\ usageStore = NoUsage
  /\ settingsStore \in SharedSettings
  /\ pc = [p \in Popups |-> "closed"]
  /\ view = [p \in Popups |-> "idle"]
  /\ settings = [p \in Popups |-> NoSettings]
  /\ usage = [p \in Popups |-> InitialUsage]
  /\ error = [p \in Popups |-> ""]
  /\ tasks = [p \in Popups |-> <<>>]
  /\ previousTasks = [p \in Popups |-> NoTasks]
  /\ usageLocal = [p \in Popups |-> NoUsage]
  /\ call = [p \in Popups |-> NoCall]
  /\ doneToday = 0
  /\ aiIdle
  /\ promptIdle
  /\ moreIdle

NextShared == \E p \in Popups : popupStep(p)

SpecShared == InitShared /\ [][NextShared]_vars

\* ----- service-worker.ts: the daily-reset alarm -------------------------------------
\* the alarm handler writing the record the quota reads
onAlarmResetsUsage ==
  /\ usageStore' = [date |-> today, extractionsCount |-> 0]
  /\ UNCHANGED <<today, settingsStore, doneToday, resetRecord>>
  /\ UNCHANGED <<license, inbox, swSettings, reply>>
  /\ UNCHANGED <<cacheVars, deviceVars, analyticsVars, editVars>>
  /\ UNCHANGED popupVars
  /\ UNCHANGED <<aiVars, promptVars>>

\* lines 194-203: chrome.storage.local.set({ usage: { date: today, count: 0 } })
onAlarm ==
  /\ resetRecord' = [date |-> today, count |-> 0]
  /\ UNCHANGED <<today, usageStore, settingsStore, doneToday>>
  /\ UNCHANGED <<license, inbox, swSettings, reply>>
  /\ UNCHANGED <<cacheVars, deviceVars, analyticsVars, editVars>>
  /\ UNCHANGED popupVars
  /\ UNCHANGED <<aiVars, promptVars>>

\* One popup document of a configured extension, the clock and the service
\* worker's alarm, which fires when the browser's alarm clock says so
NextAlarm ==
  \/ popupStep(1)
  \/ midnight
  \/ onAlarm

SpecAlarm == InitShared /\ [][NextAlarm]_vars

\* ----- service-worker.ts: external messages, lines 5-37 -----------------------------
\* An origin is a string, here a sequence of pieces; the sender of a message
\* that carries no origin has the empty one
HTTPS == "https://"
STARTVEST == "startvest.ai"

allowedOrigins == { <<HTTPS, STARTVEST>>, <<HTTPS, "www.", STARTVEST>> }

Origins ==
  allowedOrigins
  \cup { <<>>,
         <<HTTPS, "evil.com">>,
         <<"http://", STARTVEST>>,
         <<HTTPS, STARTVEST, ".evil.com">>,
         <<HTTPS, "www.", STARTVEST, ".evil.com">>,
         <<HTTPS, "app.", STARTVEST>> }

Messages ==
  [origin : Origins, type : {"LICENSE_ACTIVATED", "PING"},
   email : {"a@b.c"}, licenseKey : {"KEY-1", "KEY-2"}]

\* str.startsWith(prefix)
startsWith(str, prefix) ==
  Len(prefix) <= Len(str) /\ SubSeq(str, 1, Len(prefix)) = prefix

\* line 10: sender.origin && allowedOrigins.some(o => sender.origin.startsWith(o))
authorized(origin) ==
  origin # <<>> /\ \E o \in allowedOrigins : startsWith(origin, o)

\* A page sends a message; lines 9-16 and 36: the listener answers at once or
\* asks the storage for the settings
onMessageExternal(m) ==
  /\ inbox = NoMessage
  /\ IF ~authorized(m.origin)
       THEN /\ reply' = [sent |-> TRUE, success |-> FALSE, error |-> "Unauthorized origin"]
            /\ UNCHANGED inbox
       ELSE IF m.type = "LICENSE_ACTIVATED"
         THEN /\ inbox' = m
              /\ reply' = NoReply
         ELSE /\ reply' = [sent |-> TRUE, success |-> FALSE, error |-> "Unknown message type"]
              /\ UNCHANGED inbox
  /\ UNCHANGED <<resetRecord, license, swSettings>>
  /\ UNCHANGED <<appVars, aiVars, promptVars, cacheVars, deviceVars, analyticsVars, editVars>>

\* line 18-19: the storage answers the get
licenseRead ==
  /\ inbox # NoMessage
  /\ swSettings = NoSettings
  /\ swSettings' = settingsStore
  /\ UNCHANGED <<resetRecord, license, inbox, reply>>
  /\ UNCHANGED <<appVars, aiVars, promptVars, cacheVars, deviceVars, analyticsVars, editVars>>

\* lines 20-30: the updated settings are written and the sender is answered
licenseWrite ==
  /\ inbox # NoMessage
  /\ swSettings # NoSettings
  /\ settingsStore' = [swSettings EXCEPT !.isPro = TRUE]
  /\ license' = [licenseKey |-> inbox.licenseKey, licenseEmail |-> inbox.email]
  /\ reply' = [sent |-> TRUE, success |-> TRUE, error |-> ""]
  /\ inbox' = NoMessage
  /\ swSettings' = NoSettings
  /\ UNCHANGED <<today, usageStore, doneToday, resetRecord>>
  /\ UNCHANGED popupVars
  /\ UNCHANGED <<aiVars, promptVars, cacheVars, deviceVars, analyticsVars, editVars>>

\* The extension has been configured in some way; no license has been activated
InitLicense ==
  /\ today = 1
  /\ usageStore = NoUsage
  /\ settingsStore \in SettingsChoices
  /\ pc = [p \in Popups |-> "closed"]
  /\ view = [p \in Popups |-> "idle"]
  /\ settings = [p \in Popups |-> NoSettings]
  /\ usage = [p \in Popups |-> InitialUsage]
  /\ error = [p \in Popups |-> ""]
  /\ tasks = [p \in Popups |-> <<>>]
  /\ previousTasks = [p \in Popups |-> NoTasks]
  /\ usageLocal = [p \in Popups |-> NoUsage]
  /\ call = [p \in Popups |-> NoCall]
  /\ doneToday = 0
  /\ aiIdle
  /\ promptIdle
  /\ moreIdle

\* The service worker and the options page
NextLicense ==
  \/ \E m \in Messages : onMessageExternal(m)
  \/ licenseRead
  \/ licenseWrite
  \/ \E st \in SettingsChoices : saveSettings(st)

SpecLicense == InitLicense /\ [][NextLicense]_vars

\* ----- ai.ts: extractJSON --------------------------------------------------------------
\* The raw completion is a sequence of lexical pieces: a code fence, the
\* language tag json, white space, prose without braces or fences, an opening
\* brace, a closing brace, and a JSON object text {"tasks":[...]} (which starts
\* with '{' and ends with '}'); `payload` holds the elements of its array.
FENCE == "~~~"      \* three backquotes
JSON_TAG == "json"
SPACE == " "
PROSE == "x"
OPEN == "{"
CLOSE == "}"
OBJECT == "{tasks:[...]}"

Pieces == {FENCE, JSON_TAG, SPACE, PROSE, OPEN, CLOSE, OBJECT}

MaxPieces == 5      \* pieces of a raw completion

Texts == UNION { [1..n -> Pieces] : n \in 0..MaxPieces }

Min(S) == CHOOSE x \in S : \A y \in S : x <= y
MaxOf(S) == CHOOSE x \in S : \A y \in S : x >= y

\* String.prototype.trim
RECURSIVE trimStart(_)
trimStart(t) == IF t # <<>> /\ t[1] = SPACE THEN trimStart(Tail(t)) ELSE t

RECURSIVE trimEnd(_)
trimEnd(t) ==
  IF t # <<>> /\ t[Len(t)] = SPACE THEN trimEnd(SubSeq(t, 1, Len(t) - 1)) ELSE t

trim(t) == trimEnd(trimStart(t))

\* extractJSON as a lookup that prefers the brace span to a fenced block
extractJSONBraceFirst(t) ==
  LET opens  == { i \in 1..Len(t) : t[i] \in {OPEN, OBJECT} }
      closes == { i \in 1..Len(t) : t[i] \in {CLOSE, OBJECT} }
      fences == { i \in 1..Len(t) : t[i] = FENCE }
  IN  IF /\ opens # {} /\ closes # {}
         /\ \/ MaxOf(closes) > Min(opens)
            \/ MaxOf(closes) = Min(opens) /\ t[Min(opens)] = OBJECT
        THEN SubSeq(t, Min(opens), MaxOf(closes))
        ELSE IF Cardinality(fences) >= 2
          THEN LET first == Min(fences)
                   inner == SubSeq(t, first + 1, Min(fences \ {first}) - 1)
               IN  trim(IF inner # <<>> /\ inner[1] = JSON_TAG THEN Tail(inner) ELSE inner)
          ELSE trim(t)

\* extractJSON, lines 80-94.
\*   /```(?:json)?\s*([\s\S]*?)```/ : the leftmost fence that has a fence after
\*     it, an optional json tag, then lazily up to the next fence; the capture
\*     is trimmed
\*   /\{[\s\S]*\}/ : from the first '{' to the last '}' of the text, when that
\*     '}' comes after that '{'
extractJSON(t) ==
  LET fences == { i \in 1..Len(t) : t[i] = FENCE }
      opens  == { i \in 1..Len(t) : t[i] \in {OPEN, OBJECT} }
      closes == { i \in 1..Len(t) : t[i] \in {CLOSE, OBJECT} }
  IN  IF Cardinality(fences) >= 2
        THEN LET first == Min(fences)
                 inner == SubSeq(t, first + 1, Min(fences \ {first}) - 1)
             IN  trim(IF inner # <<>> /\ inner[1] = JSON_TAG THEN Tail(inner) ELSE inner)
        ELSE IF /\ opens # {} /\ closes # {}
                /\ \/ MaxOf(closes) > Min(opens)
                   \/ MaxOf(closes) = Min(opens) /\ t[Min(opens)] = OBJECT
          THEN SubSeq(t, Min(opens), MaxOf(closes))
          ELSE trim(t)

\* a parse in which every object has a tasks array, an empty one by default
JSONparseTasksDefault(str, elems) ==
  LET tokens == SelectSeq(str, LAMBDA x : x # SPACE)
  IN  IF tokens = <<OBJECT>>
        THEN [valid |-> TRUE, hasTasks |-> TRUE, items |-> elems]
        ELSE IF tokens = <<OPEN, CLOSE>>
          THEN [valid |-> TRUE, hasTasks |-> TRUE, items |-> <<>>]
          ELSE [valid |-> FALSE, hasTasks |-> FALSE, items |-> <<>>]

\* JSON.parse(jsonStr), line 124: white space around the value and between its
\* tokens is skipped; the object text gives an object with a tasks array, "{}"
\* an object without one, anything else made of these pieces is a SyntaxError
JSONparse(str, elems) ==
  LET tokens == SelectSeq(str, LAMBDA x : x # SPACE)
  IN  IF tokens = <<OBJECT>>
        THEN [valid |-> TRUE, hasTasks |-> TRUE, items |-> elems]
        ELSE IF tokens = <<OPEN, CLOSE>>
          THEN [valid |-> TRUE, hasTasks |-> FALSE, items |-> <<>>]
          ELSE [valid |-> FALSE, hasTasks |-> FALSE, items |-> <<>>]

\* ----- ai.ts: the task mapping of extractTasks ------------------------------------------
\* A JSON scalar as JavaScript sees it; numbers are kept in hundredths
Undefined == [t |-> "undefined", s |-> "", n |-> 0]
Null == [t |-> "null", s |-> "", n |-> 0]
Str(x) == [t |-> "string", s |-> x, n |-> 0]
Num(k) == [t |-> "number", s |-> "", n |-> k]

\* ToBoolean, as used by && and ||
truthy(v) ==
  CASE v.t \in {"undefined", "null"} -> FALSE
    [] v.t = "string" -> v.s # ""
    [] v.t = "number" -> v.n # 0
    [] OTHER -> TRUE

VALID_TIME_ESTIMATES == {"15min", "30min", "1h", "2h", "4h", "1d", "2d", "1w"}
VALID_FREQUENCIES == {"daily", "weekly", "biweekly", "monthly", "quarterly", "yearly"}

\* An element of a subTasks array: an object with a title, or something else
SubObj(title) == [t |-> "object", title |-> title]
SubNull == [t |-> "null", title |-> Undefined]
SubString == [t |-> "string", title |-> Undefined]

MaxTasks == 2       \* elements of a tasks array

\* The value of a task's subTasks member
NoSubTasks == [t |-> "undefined", items |-> <<>>]
SubTaskValues ==
  { [t |-> "array", items |-> a] :
      a \in { <<>>, <<SubObj(Str("s"))>>, <<SubObj(Str("s")), SubObj(Str("s"))>>,
              <<SubObj(Undefined)>>, <<SubString>>, <<SubNull>>,
              <<SubObj(Str("s")), SubNull>> } }
  \cup { [t |-> "string", items |-> <<>>] }

\* The value of a task's recurring member
NoRecurring ==
  [t |-> "undefined", frequency |-> Undefined, description |-> Undefined,
   dayOfWeek |-> Undefined, dayOfMonth |-> Undefined]
RecurringValues ==
  { [NoRecurring EXCEPT !.t = "object", !.frequency = Str("weekly"),
                        !.description = Str("Every Monday"), !.dayOfWeek = Num(100)],
    [NoRecurring EXCEPT !.t = "object", !.frequency = Str("monthly"),
                        !.dayOfMonth = Num(100)],
    [NoRecurring EXCEPT !.t = "object", !.frequency = Str("fortnightly"),
                        !.description = Str("Every other Monday"), !.dayOfWeek = Num(100)],
    [NoRecurring EXCEPT !.t = "object", !.frequency = Num(700),
                        !.description = Str("Every Monday")],
    [NoRecurring EXCEPT !.t = "object", !.description = Str("Every Monday"),
                        !.dayOfMonth = Num(100)],
    [NoRecurring EXCEPT !.t = "null"],
    [NoRecurring EXCEPT !.t = "string"] }

\* An element of the tasks array.  Members of a string or number element read
\* as undefined.  description, assignee, dueDate, context, sender and attendees
\* are copied or dropped without a branch that can throw and are left out.
TitleOnly ==
  [t |-> "object", title |-> Str("a"), priority |-> Undefined, category |-> Undefined,
   confidence |-> Undefined, subTasks |-> NoSubTasks, recurring |-> NoRecurring,
   timeEstimate |-> Undefined]

Elements ==
  {TitleOnly}
  \cup { [TitleOnly EXCEPT !.t = k, !.title = Undefined] :
           k \in {"null", "number", "string", "object"} }
  \cup { [TitleOnly EXCEPT !.priority = v] :
           v \in {Str("high"), Str("urgent!!"), Str(""), Null} }
  \cup { [TitleOnly EXCEPT !.category = v] : v \in {Str("follow-up"), Str("chore")} }
  \cup { [TitleOnly EXCEPT !.confidence = v] :
           v \in {Num(85), Num(150), Num(-20), Str("0.9"), Null} }
  \cup { [TitleOnly EXCEPT !.subTasks = v] : v \in SubTaskValues }
  \cup { [TitleOnly EXCEPT !.recurring = v] : v \in RecurringValues }
  \cup { [TitleOnly EXCEPT !.timeEstimate = v] : v \in {Str("1h"), Str("3h")} }
  \cup { [TitleOnly EXCEPT !.priority = Str("low"), !.category = Str("deadline"),
                           !.confidence = Num(90),
                           !.subTasks = [t |-> "array", items |-> <<SubObj(Str("s"))>>],
                           !.recurring = [NoRecurring EXCEPT !.t = "object",
                                                             !.frequency = Str("daily")],
                           !.timeEstimate = Str("2h")] }

\* The callback handles each element on its own, so an array of several tasks
\* is an array of a few typical elements in which one place holds any element
Companions ==
  { TitleOnly,
    [TitleOnly EXCEPT !.t = "null", !.title = Undefined],
    [TitleOnly EXCEPT !.subTasks = [t |-> "array", items |-> <<SubObj(Str("s"))>>]] }

Payloads ==
  LET typical == UNION { [1..n -> Companions] : n \in 0..MaxTasks }
  IN  typical \cup UNION { { [a EXCEPT ![i] = e] : i \in 1..Len(a), e \in Elements } :
                             a \in typical }

\* storage.ts generateId(): `${Date.now()}-${Math.random().toString(36).substr(2, 9)}`
generateId(ms, rnd) == [ms |-> ms, rnd |-> rnd]

\* What Math.random().toString(36).substr(2, 9) can give
RandomStrings == {"r1", "r2"}

\* One generateId call: the milliseconds gone by since the previous reading of
\* the clock, and the random string
Draws == [dt : 0..1, rnd : RandomStrings]

NoDraw == [dt |-> 0, rnd |-> "r1"]

\* lines 143-149: the sub-tasks are mapped only for a non-empty array
hasSubTasks(task) == task.subTasks.t = "array" /\ Len(task.subTasks.items) > 0

\* the generateId calls the callback makes for one element
idsNeeded(task) == IF hasSubTasks(task) THEN Len(task.subTasks.items) + 1 ELSE 1

\* the callback throws a TypeError: a member of null is read (task.subTasks at
\* line 143, st.title at line 146)
throwsTypeError(task) ==
  \/ task.t = "null"
  \/ /\ hasSubTasks(task)
     /\ \E i \in 1..Len(task.subTasks.items) : task.subTasks.items[i].t = "null"

\* lines 142-149
subTasksOf(task, ids) ==
  IF hasSubTasks(task)
    THEN [t |-> "array",
          items |-> [i \in 1..Len(task.subTasks.items) |->
                       [id |-> ids[i], title |-> task.subTasks.items[i].title,
                        completed |-> FALSE]]]
    ELSE NoSubTasks

\* lines 151-160, with the validity test left out
recurringOfUnchecked(task) ==
  LET r == task.recurring
  IN  IF r.t \notin {"undefined", "null"} /\ truthy(r.frequency)
        THEN [t |-> "object", frequency |-> r.frequency,
              description |-> IF truthy(r.description) THEN r.description
                                                       ELSE Str("Repeats <frequency>"),
              dayOfWeek |-> r.dayOfWeek, dayOfMonth |-> r.dayOfMonth]
        ELSE NoRecurring

\* lines 151-160
recurringOf(task) ==
  LET r == task.recurring
  IN  IF /\ r.t \notin {"undefined", "null"}
         /\ truthy(r.frequency)
         /\ r.frequency.t = "string" /\ r.frequency.s \in VALID_FREQUENCIES
        THEN [t |-> "object", frequency |-> r.frequency,
              description |-> IF truthy(r.description) THEN r.description
                                                       ELSE Str("Repeats <frequency>"),
              dayOfWeek |-> r.dayOfWeek, dayOfMonth |-> r.dayOfMonth]
        ELSE NoRecurring

\* lines 162-166
timeEstimateOf(task) ==
  IF /\ truthy(task.timeEstimate)
     /\ task.timeEstimate.t = "string" /\ task.timeEstimate.s \in VALID_TIME_ESTIMATES
    THEN task.timeEstimate
    ELSE Undefined

\* lines 168-184 with the priority default left out
taskOfNoDefaults(task, ids) ==
  [id |-> ids[idsNeeded(task)],
   title |-> task.title,
   priority |-> task.priority,
   category |-> IF truthy(task.category) THEN task.category ELSE Str("action"),
   confidence |-> IF task.confidence.t = "number" THEN task.confidence ELSE Num(70),
   selected |-> TRUE,
   subTasks |-> subTasksOf(task, ids),
   recurring |-> recurringOf(task),
   timeEstimate |-> timeEstimateOf(task)]

\* lines 168-184: the task the callback returns for one element
taskOf(task, ids) ==
  [id |-> ids[idsNeeded(task)],
   title |-> task.title,
   priority |-> IF truthy(task.priority) THEN task.priority ELSE Str("medium"),
   category |-> IF truthy(task.category) THEN task.category ELSE Str("action"),
   confidence |-> IF task.confidence.t = "number" THEN task.confidence ELSE Num(70),
   selected |-> TRUE,
   subTasks |-> subTasksOf(task, ids),
   recurring |-> recurringOf(task),
   timeEstimate |-> timeEstimateOf(task)]

\* the most generateId calls one element takes
MaxIds == MaxOf({ idsNeeded(e) : e \in Elements })

\* Date.now() at the i-th generateId call of a callback
RECURSIVE clockAt(_, _, _)
clockAt(start, d, i) == IF i = 0 THEN start ELSE clockAt(start, d, i - 1) + d[i].dt

\* ----- ai.ts: the try block of extractTasks, lines 122-188 --------------------------------
\* The state of the rest of the extension while the parsing is exercised
appIdle ==
  /\ today = 1
  /\ usageStore = NoUsage
  /\ settingsStore = DEFAULT_SETTINGS
  /\ pc = [p \in Popups |-> "closed"]
  /\ view = [p \in Popups |-> "idle"]
  /\ settings = [p \in Popups |-> NoSettings]
  /\ usage = [p \in Popups |-> InitialUsage]
  /\ error = [p \in Popups |-> ""]
  /\ tasks = [p \in Popups |-> <<>>]
  /\ previousTasks = [p \in Popups |-> NoTasks]
  /\ usageLocal = [p \in Popups |-> NoUsage]
  /\ call = [p \in Popups |-> NoCall]
  /\ doneToday = 0

\* callAI has returned `response`
InitNormalize ==
  /\ appIdle
  /\ promptIdle
  /\ moreIdle
  /\ \/ response \in Texts /\ payload = <<>>
     \/ response = <<OBJECT>> /\ payload \in Payloads
  /\ jsonStr = <<>>
  /\ parsed = NoCompletion
  /\ mapped = <<>>
  /\ outcome = "received"
  /\ now = 0

\* line 123
extractJSONStep ==
  /\ outcome = "received"
  /\ jsonStr' = extractJSON(response)
  /\ outcome' = "extracted"
  /\ UNCHANGED <<response, payload, parsed, mapped, now>>
  /\ UNCHANGED <<appVars, promptVars, moreVars>>

\* line 124: JSON.parse returns, or throws into the catch of line 186
JSONparseStep ==
  /\ outcome = "extracted"
  /\ parsed' = JSONparse(jsonStr, payload)
  /\ outcome' = IF parsed'.valid THEN "parsed" ELSE "thrown"
  /\ UNCHANGED <<response, payload, jsonStr, mapped, now>>
  /\ UNCHANGED <<appVars, promptVars, moreVars>>

\* lines 140-185: the callback returns the task of the next element
mapCallback(d) ==
  /\ outcome = "parsed"
  /\ parsed.hasTasks
  /\ Len(mapped) < Len(parsed.items)
  /\ LET task == parsed.items[Len(mapped) + 1]
         ids  == [i \in 1..MaxIds |-> generateId(clockAt(now, d, i), d[i].rnd)]
     IN  /\ ~throwsTypeError(task)
         /\ \A i \in 1..MaxIds : i > idsNeeded(task) => d[i] = NoDraw
         /\ mapped' = Append(mapped, taskOf(task, ids))
         /\ now' = clockAt(now, d, idsNeeded(task))
  /\ UNCHANGED <<response, payload, jsonStr, parsed, outcome>>
  /\ UNCHANGED <<appVars, promptVars, moreVars>>

\* parsed.tasks.map (no tasks array) or the callback throws a TypeError, which
\* the catch of lines 186-188 turns into the parse error; nothing is returned
mapThrows ==
  /\ outcome = "parsed"
  /\ \/ ~parsed.hasTasks
     \/ /\ Len(mapped) < Len(parsed.items)
        /\ throwsTypeError(parsed.items[Len(mapped) + 1])
  /\ mapped' = <<>>
  /\ outcome' = "thrown"
  /\ UNCHANGED <<response, payload, jsonStr, parsed, now>>
  /\ UNCHANGED <<appVars, promptVars, moreVars>>

\* line 140: map has gone through the array, extractTasks returns the list
mapReturns ==
  /\ outcome = "parsed"
  /\ parsed.hasTasks
  /\ Len(mapped) = Len(parsed.items)
  /\ outcome' = "returned"
  /\ UNCHANGED <<response, payload, jsonStr, parsed, mapped, now>>
  /\ UNCHANGED <<appVars, promptVars, moreVars>>

NextNormalize ==
  \/ extractJSONStep
  \/ JSONparseStep
  \/ \E d \in [1..MaxIds -> Draws] : mapCallback(d)
  \/ mapThrows
  \/ mapReturns

SpecNormalize == InitNormalize /\ [][NextNormalize]_vars

\* ----- the claims ---------------------------------------------------------------------
\* p makes a handleExtract call in this step
invokes(p) == call[p] = NoCall /\ call'[p] # NoCall

\* the count getUsage reports from the store right now
storedCountToday == getUsage(usageStore, today).extractionsCount

\* C1: for a non-Pro user, a handleExtract call made while the stored usage
\* record for today holds a count of 5 or more (and no other call is running)
\* fails with the daily-limit error and sends no provider request.
C1_QuotaGateOnStoredRecord ==
  [][\A p \in Popups :
       (/\ invokes(p)
        /\ ~settingsStore.isPro
        /\ storedCountToday >= DailyLimit
        /\ \A q \in Popups \ {p} : call[q].result # "running")
       => (/\ call'[p].result = "fail"
           /\ call'[p].error = QUOTA_ERROR
           /\ call'[p].requests = <<>>)]_vars

ended(p) == call[p].result \in {"ok", "fail"}

C4_OverQuotaBoundedByConcurrency ==
  doneToday <= DailyLimit + NumPopups

\* C5: a stored usage record of another date counts as 0: incrementUsage that
\* reads one writes count 1 for its own date, canExtract of a non-Pro user
\* reports the full allowance over one, and the change of day itself leaves
\* the store alone.
C5_OtherDateCountsAsZero ==
  [][/\ \A p \in Popups :
          /\ (pc[p] = "incGet" /\ pc'[p] = "incSet" /\ usageStore.date # usageLocal[p].date)
               => usageLocal'[p] = [date |-> usageLocal[p].date, extractionsCount |-> 0]
          /\ (pc[p] = "incSet" /\ pc'[p] = "refresh" /\ usageLocal[p].extractionsCount = 0)
               => usageStore' = [date |-> usageLocal[p].date, extractionsCount |-> 1]
          /\ (pc[p] \in {"closed", "refresh"} /\ pc'[p] = "ready"
                /\ ~settingsStore.isPro /\ usageStore.date # today)
               => usage'[p] = [allowed |-> TRUE, remaining |-> DailyLimit]
     /\ today' # today => usageStore' = usageStore]_vars

\* incrementUsage has read yesterday's positive count as 0 of today
C5_Witness ==
  \E p \in Popups : /\ pc[p] = "incSet"
                    /\ usageLocal[p] = [date |-> 2, extractionsCount |-> 0]
                    /\ usageStore.date = 1
                    /\ usageStore.extractionsCount >= 1

Range(f) == { f[i] : i \in DOMAIN f }
Last(sq) == sq[Len(sq)]
IsPrefix(a, b) == Len(a) <= Len(b) /\ SubSeq(b, 1, Len(a)) = a

\* the six steps C7 names, in its order
ClaimedOrder == <<"quota", "key", "prompt", "provider", "normalize", "commit">>

\* the steps of a call among those six, a repeated check counted once
namedSteps(sq) == SelectSeq(sq, LAMBDA x : x \in Range(ClaimedOrder))

RECURSIVE collapse(_)
collapse(sq) ==
  IF Len(sq) <= 1 THEN sq
  ELSE IF sq[1] = sq[2] THEN collapse(Tail(sq))
  ELSE <<sq[1]>> \o collapse(Tail(sq))

\* the step a failure message belongs to
failedStep(msg) ==
  CASE msg = QUOTA_ERROR -> "quota"
    [] msg \in {"Please configure your OpenAI API key in settings.",
                "Please configure your Anthropic API key in settings.",
                "Please configure your OpenAI API key in settings",
                "Please configure your Anthropic API key in settings"} -> "key"
    [] msg \in {NO_TAB_ERROR, NO_CONTENT_ERROR} -> "content"
    [] msg \in {PARSE_ERROR, NO_TASKS_ERROR} -> "normalize"
    [] OTHER -> "provider"

\* C7: within one call the steps quota check, key check, prompt build,
\* provider call, normalization and usage increment are started in that order,
\* each only after the ones before it; a request has been sent only once the
\* provider step was reached, usage is written only in the commit step, and a
\* failed call stopped at the step its error belongs to.
C7_StepOrder ==
  \A p \in Popups :
    /\ IsPrefix(collapse(namedSteps(call[p].steps)), ClaimedOrder)
    /\ call[p].requests # <<>> => "provider" \in Range(call[p].steps)
    /\ call[p].exchange.kind # "none" => "provider" \in Range(call[p].steps)
    /\ call[p].normalized => "normalize" \in Range(call[p].steps)
    /\ (call[p].usageWrites > 0 \/ pc[p] \in {"incGet", "incSet", "refresh"})
         => Last(call[p].steps) = "commit"
    /\ call[p].result = "fail" =>
         /\ Last(call[p].steps) = failedStep(call[p].error)
         /\ failedStep(call[p].error) \in {"quota", "key", "content"}
              => call[p].requests = <<>>
         /\ call[p].usageWrites = 0

\* a call went through all six steps
C7_Witness ==
  \E p \in Popups : /\ call[p].result = "ok"
                    /\ collapse(namedSteps(call[p].steps)) = ClaimedOrder

\* C8: a call sends at most one HTTP request, to the endpoint of the provider
\* selected in its settings; after a failed exchange there is still one request.
C8_OneRequest ==
  \A p \in Popups :
    /\ Len(call[p].requests) <= 1
    /\ call[p].requests # <<>> =>
         call[p].requests[1] = IF settings[p].aiProvider = "openai"
                                 THEN "https://api.openai.com/v1/chat/completions"
                                 ELSE "https://api.anthropic.com/v1/messages"
    /\ call[p].exchange.kind # "none" => Len(call[p].requests) = 1

\* the Anthropic call failed with an OpenAI key at hand: one request, to Anthropic
C8_Witness ==
  \E p \in Popups : /\ call[p].result = "fail"
                    /\ call[p].exchange.kind \in {"status", "network"}
                    /\ settings[p].aiProvider = "anthropic"
                    /\ settings[p].openaiApiKey # ""
                    /\ Len(call[p].requests) = 1

\* the kind of failure a message stands for
errorKind(msg) ==
  CASE msg = QUOTA_ERROR -> "QuotaExceeded"
    [] failedStep(msg) = "key" -> "MissingApiKey"
    [] msg = NO_TAB_ERROR -> "NoActiveTab"
    [] msg = NO_CONTENT_ERROR -> "NoPageContent"
    [] msg = PARSE_ERROR -> "ParseError"
    [] msg = NO_TASKS_ERROR -> "NoTasksFound"
    [] OTHER -> "ProviderError"

C10_ProNeverRejected ==
  [][\A p \in Popups :
       (invokes(p) /\ settingsStore.isPro) => call'[p].error # QUOTA_ERROR]_vars

\* ----- prompts.ts and the content script ---------------------------------------------------
\* A string is a sequence of runs: n characters of the kind ch.  A run of "a"
\* or "b" is n times that letter; a run of the content script's marker is its
\* first n characters; the phrase the builder searches for, 'Respond in', and
\* every fixed piece of a template count as one character of their own kind.
\* A rendered rule line carries its keywords in v and its actions in act.
Run(ch, n) == [ch |-> ch, n |-> n, v |-> <<>>, act |-> <<>>]
Lit(name) == Run(name, 1)

RESPOND_IN == "Respond in"
TRUNCATED == "\n\n[Content truncated...]"

CONTENT_LIMIT == 15000      \* content.slice(0, 15000)
maxLength == 15000          \* content script: const maxLength = 15000
MARKER_LENGTH == 24         \* '\n\n[Content truncated...]'.length

MaxOver == 2        \* characters a text goes beyond the limit
MaxRules == 2       \* extraction rules handed to the builder

RECURSIVE strlen(_)
strlen(str) == IF str = <<>> THEN 0 ELSE str[1].n + strlen(Tail(str))

\* str.slice(0, k) / str.substring(0, k)
RECURSIVE slice(_, _)
slice(str, k) ==
  IF str = <<>> \/ k <= 0 THEN <<>>
  ELSE IF str[1].n <= k THEN <<str[1]>> \o slice(Tail(str), k - str[1].n)
  ELSE <<[str[1] EXCEPT !.n = k]>>

\* the text of a page or a selection: k times "a", the phrase if r, m times "b"
pageOf(k, r, m) ==
  (IF k > 0 THEN <<Run("a", k)>> ELSE <<>>)
  \o (IF r THEN <<Run(RESPOND_IN, 1)>> ELSE <<>>)
  \o (IF m > 0 THEN <<Run("b", m)>> ELSE <<>>)

Pages ==
  { pageOf(k, FALSE, m) : k \in {0, CONTENT_LIMIT - 1, CONTENT_LIMIT}, m \in 0..MaxOver }
  \cup { pageOf(1, TRUE, 1), pageOf(0, TRUE, 0) }

Titles == { <<Run("a", 1)>>, <<Run(RESPOND_IN, 1)>> }

Modes == {"general", "email", "meeting"}

\* content-script.ts extractPageContent, lines 46-50
contentScript(str) ==
  IF strlen(str) > maxLength
    THEN slice(str, maxLength) \o <<Run(TRUNCATED, MARKER_LENGTH)>>
    ELSE str

\* An ExtractionRule; its value is a comma separated list of keywords, each
\* with or without white space around it
Keyword(w, pad) == [w |-> w, pad |-> pad]

RuleKinds ==
  { [value |-> <<Keyword("urgent", FALSE)>>,
     action |-> [priority |-> "high", category |-> "deadline"]],
    [value |-> <<Keyword("spam", TRUE), Keyword("ads", FALSE)>>,
     action |-> [priority |-> "", category |-> ""]] }

Rules ==
  { [enabled |-> e, type |-> ty, value |-> k.value, action |-> k.action] :
      e \in BOOLEAN, ty \in {"keyword", "pattern", "ignore"}, k \in RuleKinds }

RuleLists == UNION { [1..n -> Rules] : n \in 0..MaxRules }

\* rule.value.split(',').map((k) => k.trim()).join(', ')
keywordsOf(value) == [i \in 1..Len(value) |-> value[i].w]

\* lines 229-231
actionsOf(action) ==
  (IF action.priority # "" THEN <<action.priority>> ELSE <<>>)
  \o (IF action.category # "" THEN <<action.category>> ELSE <<>>)

keywordLine(rule) ==
  [ch |-> "- If content contains", n |-> 1, v |-> keywordsOf(rule.value),
   act |-> actionsOf(rule.action)]

ignoreLine(rule) ==
  [ch |-> "- Skip items containing", n |-> 1, v |-> keywordsOf(rule.value), act |-> <<>>]

RULES_HEADER == "CUSTOM EXTRACTION RULES (apply these strictly):"

\* buildCustomRulesSection without the filter of line 217
buildCustomRulesSectionUnfiltered(rules) ==
  LET enabledRules == rules
      keywordRules == SelectSeq(enabledRules, LAMBDA r : r.type = "keyword")
      ignoreRules  == SelectSeq(enabledRules, LAMBDA r : r.type = "ignore")
  IN  IF enabledRules = <<>> THEN <<>>
      ELSE <<Lit(RULES_HEADER)>>
           \o (IF keywordRules # <<>>
                 THEN <<Lit("Priority Keywords:")>>
                      \o [i \in 1..Len(keywordRules) |-> keywordLine(keywordRules[i])]
                 ELSE <<>>)
           \o (IF ignoreRules # <<>>
                 THEN <<Lit("Ignore Patterns (do NOT extract as tasks):")>>
                      \o [i \in 1..Len(ignoreRules) |-> ignoreLine(ignoreRules[i])]
                 ELSE <<>>)

\* buildCustomRulesSection, lines 216-245
buildCustomRulesSection(rules) ==
  LET enabledRules == SelectSeq(rules, LAMBDA r : r.enabled)
      keywordRules == SelectSeq(enabledRules, LAMBDA r : r.type = "keyword")
      ignoreRules  == SelectSeq(enabledRules, LAMBDA r : r.type = "ignore")
  IN  IF enabledRules = <<>> THEN <<>>
      ELSE <<Lit(RULES_HEADER)>>
           \o (IF keywordRules # <<>>
                 THEN <<Lit("Priority Keywords:")>>
                      \o [i \in 1..Len(keywordRules) |-> keywordLine(keywordRules[i])]
                 ELSE <<>>)
           \o (IF ignoreRules # <<>>
                 THEN <<Lit("Ignore Patterns (do NOT extract as tasks):")>>
                      \o [i \in 1..Len(ignoreRules) |-> ignoreLine(ignoreRules[i])]
                 ELSE <<>>)

\* buildGeneralPrompt (44-88), buildEmailPrompt (90-150), buildMeetingPrompt
\* (152-214): the template around "${title}" and ${content.slice(0, 15000)};
\* each has 'Respond in' once, at the head of its format section
basePromptOf(content, title, mode) ==
  <<Lit(mode \o ": task and title label")>>
  \o title
  \o <<Lit(mode \o ": content label and opening quotes")>>
  \o slice(content, CONTENT_LIMIT)
  \o <<Lit(mode \o ": closing quotes and instructions"),
       Lit(RESPOND_IN),
       Lit(mode \o ": JSON format and closing notes")>>

\* basePrompt.lastIndexOf('Respond in'): the run holding the last occurrence,
\* 0 when there is none
lastIndexOf(str, ch) ==
  LET at == { i \in 1..Len(str) : str[i].ch = ch }
  IN  IF at = {} THEN 0 ELSE MaxOf(at)

\* buildExtractionPrompt, lines 247-276
buildExtractionPrompt(content, title, mode, customRules) ==
  LET basePrompt   == basePromptOf(content, title, mode)
      rulesSection == buildCustomRulesSection(customRules)
      i            == lastIndexOf(basePrompt, RESPOND_IN)
      insertPoint  == IF i = 0 THEN -1
                      ELSE strlen(SubSeq(basePrompt, 1, i - 1)) + basePrompt[i].n - 1
  IN  IF Len(customRules) > 0 /\ insertPoint > 0
        THEN SubSeq(basePrompt, 1, i - 1)
             \o (IF basePrompt[i].n > 1
                   THEN <<[basePrompt[i] EXCEPT !.n = @ - 1]>> ELSE <<>>)
             \o rulesSection
             \o <<Lit("\n\n")>>
             \o <<[basePrompt[i] EXCEPT !.n = 1]>>
             \o SubSeq(basePrompt, i + 1, Len(basePrompt))
        ELSE basePrompt

\* A text is at hand: a page, or the text the user selected
InitPrompt ==
  /\ appIdle
  /\ aiIdle
  /\ moreIdle
  /\ promptArgs \in [pageText : Pages, source : {"none"}, content : {<<>>},
                     title : Titles, mode : Modes, rules : RuleLists]
  /\ prompt = <<>>

\* Popup handleExtract lines 144-152: the content script's answer is the content
extractPageContent ==
  /\ promptArgs.source = "none"
  /\ promptArgs' = [promptArgs EXCEPT !.source = "page",
                                      !.content = contentScript(promptArgs.pageText)]
  /\ UNCHANGED prompt
  /\ UNCHANGED <<appVars, aiVars, moreVars>>

\* Popup handleExtract lines 139-143: the selected text is the content
useSelectedText ==
  /\ promptArgs.source = "none"
  /\ promptArgs' = [promptArgs EXCEPT !.source = "selection",
                                      !.content = promptArgs.pageText]
  /\ UNCHANGED prompt
  /\ UNCHANGED <<appVars, aiVars, moreVars>>

\* extractTasks line 119
buildPrompt ==
  /\ promptArgs.source # "none"
  /\ prompt = <<>>
  /\ prompt' = buildExtractionPrompt(promptArgs.content, promptArgs.title,
                                     promptArgs.mode, promptArgs.rules)
  /\ UNCHANGED promptArgs
  /\ UNCHANGED <<appVars, aiVars, moreVars>>

NextPrompt ==
  \/ extractPageContent
  \/ useSelectedText
  \/ buildPrompt

SpecPrompt == InitPrompt /\ [][NextPrompt]_vars

\* ----- the claims on extractTasks' parsing ----------------------------------------------
\* the response carried a tasks array and extractTasks has returned its list
returned == outcome = "returned"

\* the element the k-th returned task was made from
source(k) == parsed.items[k]

\* C11: an element that carries only a title becomes a task with that title,
\* priority medium, category action, confidence 0.7, selected true and no
\* subTasks, recurring or timeEstimate; a response holding just that element
\* returns exactly one task.
C11_TitleOnlyDefaults ==
  /\ \A k \in 1..Len(mapped) :
       (/\ source(k).t = "object"
        /\ source(k).title = [t |-> "string", s |-> "a", n |-> 0]
        /\ source(k).priority.t = "undefined"
        /\ source(k).category.t = "undefined"
        /\ source(k).confidence.t = "undefined"
        /\ source(k).subTasks.t = "undefined"
        /\ source(k).recurring.t = "undefined"
        /\ source(k).timeEstimate.t = "undefined")
       => /\ mapped[k].title = [t |-> "string", s |-> "a", n |-> 0]
          /\ mapped[k].priority = [t |-> "string", s |-> "medium", n |-> 0]
          /\ mapped[k].category = [t |-> "string", s |-> "action", n |-> 0]
          /\ mapped[k].confidence = [t |-> "number", s |-> "", n |-> 70]
          /\ mapped[k].selected = TRUE
          /\ mapped[k].subTasks.t = "undefined"
          /\ mapped[k].recurring.t = "undefined"
          /\ mapped[k].timeEstimate.t = "undefined"
  /\ (returned /\ payload = <<TitleOnly>> /\ response = <<OBJECT>>) => Len(mapped) = 1

\* the response with the single title-only element has been normalized
C11_Witness ==
  /\ returned
  /\ payload = <<TitleOnly>>
  /\ Len(mapped) = 1
  /\ mapped[1].confidence.n = 70

\* C12: every task produced by normalization has a priority among high,
\* medium, low and a category among the seven recognized ones; a value outside
\* the set has been replaced by medium respectively action.
C12_PriorityCategoryInRange ==
  \A k \in 1..Len(mapped) :
    /\ mapped[k].priority.t = "string"
    /\ mapped[k].priority.s \in {"high", "medium", "low"}
    /\ mapped[k].category.t = "string"
    /\ mapped[k].category.s \in {"action", "follow-up", "decision", "deadline",
                                 "question", "idea", "other"}
    /\ ~(source(k).priority.t = "string" /\ source(k).priority.s \in {"high", "medium", "low"})
         => mapped[k].priority.s = "medium"

\* C13: every task produced by normalization has a confidence within [0,1]
\* (0..100 hundredths), and 0.7 when the response gives none or a non-numeric one.
C13_ConfidenceInUnitInterval ==
  \A k \in 1..Len(mapped) :
    /\ mapped[k].confidence.t = "number"
    /\ mapped[k].confidence.n >= 0
    /\ mapped[k].confidence.n <= 100
    /\ source(k).confidence.t # "number" => mapped[k].confidence.n = 70

\* the element at fault when the callback throws
nullInside(e) ==
  \/ e.t = "null"
  \/ /\ e.subTasks.t = "array"
     /\ \E i \in 1..Len(e.subTasks.items) : e.subTasks.items[i].t = "null"

\* C14: a task has a recurring object only if the response's recurring.frequency
\* is one of the six literals, and then with that frequency; with any other or
\* a missing frequency nothing of the recurring object is kept (no description,
\* dayOfWeek or dayOfMonth), and the task is still produced: such an element
\* never makes the mapping throw and the list has one task per element.
C14_RecurringOnlyIfValid ==
  /\ \A k \in 1..Len(mapped) :
       LET f == source(k).recurring.frequency
           valid == /\ source(k).recurring.t = "object"
                    /\ f.t = "string"
                    /\ f.s \in {"daily", "weekly", "biweekly", "monthly",
                                "quarterly", "yearly"}
       IN  /\ mapped[k].recurring.t = "object" <=> valid
           /\ valid => mapped[k].recurring.frequency = f
           /\ ~valid => /\ mapped[k].recurring.t = "undefined"
                        /\ mapped[k].recurring.description.t = "undefined"
                        /\ mapped[k].recurring.dayOfWeek.t = "undefined"
                        /\ mapped[k].recurring.dayOfMonth.t = "undefined"
  /\ returned => Len(mapped) = Len(parsed.items)
  /\ (outcome = "thrown" /\ parsed.hasTasks)
       => \E k \in 1..Len(parsed.items) : nullInside(parsed.items[k])

\* a task was produced from an element whose recurring.frequency is "fortnightly"
C14_Witness ==
  /\ returned
  /\ \E k \in 1..Len(mapped) :
       /\ source(k).recurring.t = "object"
       /\ source(k).recurring.frequency.s = "fortnightly"
       /\ source(k).recurring.description.t = "string"
       /\ mapped[k].recurring.t = "undefined"

\* the extracted string without its white space
squeezed == SelectSeq(jsonStr, LAMBDA x : x # " ")

\* C15: when the extracted string is not valid JSON, and when it is valid JSON
\* without a tasks array (the text {}), extractTasks ends in the parse error
\* and returns no task list; a list is returned only from valid JSON with a
\* tasks array.
C15_ParseError ==
  [][/\ (outcome = "extracted"
           /\ squeezed # <<"{tasks:[...]}">> /\ squeezed # <<"{", "}">>)
          => (outcome' = "thrown" /\ mapped' = <<>>)
     /\ (outcome = "extracted" /\ squeezed = <<"{", "}">>)
          => (outcome' = "parsed" /\ parsed'.valid /\ ~parsed'.hasTasks)
     /\ (outcome = "parsed" /\ ~parsed.hasTasks)
          => (outcome' = "thrown" /\ mapped' = <<>>)
     /\ outcome' = "returned" => (parsed.valid /\ parsed.hasTasks)
     /\ outcome = "thrown" => (outcome' = "thrown" /\ mapped' = <<>>)]_vars

\* valid JSON without a tasks array has ended in the parse error
C15_Witness ==
  /\ outcome = "thrown"
  /\ squeezed = <<"{", "}">>
  /\ parsed.valid
  /\ mapped = <<>>

\* C16: when the text parses to an object with a tasks array, normalization
\* returns one task per element whatever the elements contain, and never ends
\* in the parse error.
C16_MalformedElementNeverAborts ==
  /\ (parsed.valid /\ parsed.hasTasks) => outcome # "thrown"
  /\ returned => Len(mapped) = Len(parsed.items)

\* positions of the fences in the raw completion
fencePositions == { i \in 1..Len(response) : response[i] = "~~~" }

\* C17: extractJSON follows a fixed order of preference.  With a fenced block
\* in the text, the result is the content of the first one (between the first
\* two fences, after the json tag if it follows the opening fence), trimmed;
\* otherwise, with a '{' and a '}' after it, the span from the first '{' to
\* the last '}'; otherwise the whole text, trimmed.  Prose, a fenced block
\* holding {"tasks":[]} and more prose normalize to the empty list.
C17_ExtractionOrder ==
  /\ outcome # "received" =>
       LET n      == Len(response)
           opens  == { i \in 1..n : response[i] \in {"{", "{tasks:[...]}"} }
           closes == { i \in 1..n : response[i] \in {"}", "{tasks:[...]}"} }
           \* jsonStr is response[a..b] without white space at its ends, and
           \* what lies between lo..a-1 and b+1..hi is white space, after one
           \* json tag at lo if tagged
           trimmedSpan(lo, hi, tagged) ==
             \E a \in lo..(hi + 1), b \in (lo - 1)..hi :
               /\ jsonStr = SubSeq(response, a, b)
               /\ jsonStr # <<>> => (jsonStr[1] # " " /\ jsonStr[Len(jsonStr)] # " ")
               /\ jsonStr = <<>> => a = b + 1
               /\ \A i \in lo..(a - 1) :
                    \/ response[i] = " "
                    \/ tagged /\ i = lo /\ response[i] = "json"
               /\ \A i \in (b + 1)..hi : response[i] = " "
               /\ (tagged /\ lo <= hi /\ response[lo] = "json") => a > lo
       IN  IF Cardinality(fencePositions) >= 2
             THEN LET f1 == CHOOSE i \in fencePositions :
                              \A j \in fencePositions : i <= j
                      f2 == CHOOSE i \in fencePositions \ {f1} :
                              \A j \in fencePositions \ {f1} : i <= j
                  IN  trimmedSpan(f1 + 1, f2 - 1, TRUE)
             ELSE IF \E i \in opens, j \in closes :
                       j > i \/ (j = i /\ response[i] = "{tasks:[...]}")
               THEN \E i \in opens, j \in closes :
                      /\ \A k \in opens : i <= k
                      /\ \A k \in closes : k <= j
                      /\ jsonStr = SubSeq(response, i, j)
               ELSE trimmedSpan(1, n, FALSE)
  /\ (/\ response = <<"x", "~~~", "{tasks:[...]}", "~~~", "x">>
      /\ payload = <<>>
      /\ outcome \in {"returned", "thrown"})
       => (returned /\ mapped = <<>> /\ jsonStr = <<"{tasks:[...]}">>)

\* prose, a fenced block holding {"tasks":[]}, prose: the empty list is returned
C17_Witness ==
  /\ response = <<"x", "~~~", "{tasks:[...]}", "~~~", "x">>
  /\ payload = <<>>
  /\ returned
  /\ mapped = <<>>

\* the ids of the tasks and sub-tasks produced so far, in the order of the list
RECURSIVE idsOf(_)
idsOf(ts) ==
  IF ts = <<>> THEN <<>>
  ELSE LET tk   == ts[1]
           subs == IF tk.subTasks.t = "array"
                     THEN [i \in 1..Len(tk.subTasks.items) |-> tk.subTasks.items[i].id]
                     ELSE <<>>
       IN  subs \o <<tk.id>> \o idsOf(Tail(ts))

\* C18: every returned task and sub-task carries a locally generated id, the
\* ids generated for one result are pairwise different, and every returned
\* task has selected = true.
C18_UniqueIdsSelected ==
  LET ids == idsOf(mapped)
  IN  /\ \A i \in 1..Len(ids) : ids[i].rnd \in {"r1", "r2"} /\ ids[i].ms <= now
      /\ \A i, j \in 1..Len(ids) : i # j => ids[i] # ids[j]
      /\ \A k \in 1..Len(mapped) : mapped[k].selected = TRUE

\* ----- the claims on the prompt builder -------------------------------------
built == prompt # <<>>

indexOf(str, ch) == Min({ i \in 1..Len(str) : str[i].ch = ch })

\* what stands between the template's opening and closing quotes
embedded ==
  LET open  == indexOf(prompt, promptArgs.mode \o ": content label and opening quotes")
      close == indexOf(prompt, promptArgs.mode \o ": closing quotes and instructions")
  IN  SubSeq(prompt, open + 1, close - 1)

\* C19: in every mode, content shorter than 15,000 characters is embedded
\* verbatim, and of longer content exactly the first 15,000 characters are
\* embedded, followed by a truncation marker; also for page content the
\* content script has already cut and suffixed with its own marker.
C19_TruncationWithMarker ==
  built =>
    LET c == promptArgs.content
    IN  /\ strlen(c) < CONTENT_LIMIT => embedded = c
        /\ strlen(c) > CONTENT_LIMIT =>
             /\ Len(embedded) >= 2
             /\ SubSeq(embedded, 1, Len(embedded) - 1) = slice(c, CONTENT_LIMIT)
             /\ Last(embedded) = Run(TRUNCATED, MARKER_LENGTH)

isRuleLine(r) == r.ch \in {"- If content contains", "- Skip items containing"}

ruleLines(str) == SelectSeq(str, isRuleLine)

rendered(rules) ==
  LET on == SelectSeq(rules, LAMBDA r : r.enabled)
      kw == SelectSeq(on, LAMBDA r : r.type = "keyword")
      ig == SelectSeq(on, LAMBDA r : r.type = "ignore")
  IN  [i \in 1..Len(kw) |-> keywordLine(kw[i])] \o [i \in 1..Len(ig) |-> ignoreLine(ig[i])]

\* C20: with at least one enabled rule the prompt holds the custom-rules block
\* exactly once, strictly before the template's 'Respond in' instruction, in
\* every mode and whatever the content and the title; its rule lines are those
\* of the enabled keyword and ignore rules, each of them, and none of a
\* disabled rule.
C20_RulesBlockOnceBeforeFormat ==
  (built /\ \E i \in 1..Len(promptArgs.rules) : promptArgs.rules[i].enabled) =>
    LET headers == { i \in 1..Len(prompt) : prompt[i].ch = RULES_HEADER }
        format  == indexOf(prompt, promptArgs.mode \o ": JSON format and closing notes")
        lines   == { i \in 1..Len(prompt) : isRuleLine(prompt[i]) }
    IN  /\ Cardinality(headers) = 1
        /\ prompt[format - 1] = Lit(RESPOND_IN)
        /\ \A i \in headers \cup lines : i < format - 1
        /\ \A i \in lines : \A h \in headers : h < i
        /\ ruleLines(prompt) = rendered(promptArgs.rules)
        /\ \A i \in 1..Len(promptArgs.rules) :
             LET r == promptArgs.rules[i]
             IN  /\ (r.enabled /\ r.type \in {"keyword", "ignore"}) =>
                      \E j \in lines : prompt[j].v = keywordsOf(r.value)
                 /\ (~r.enabled /\ \A k \in 1..Len(promptArgs.rules) :
                        promptArgs.rules[k].enabled =>
                          promptArgs.rules[k].value # r.value) =>
                      \A j \in 1..Len(prompt) : prompt[j].v # keywordsOf(r.value)

C20_Witness ==
  /\ built
  /\ promptArgs.mode = "email"
  /\ promptArgs.content = pageOf(1, TRUE, 1)
  /\ promptArgs.title = <<Run(RESPOND_IN, 1)>>
  /\ Len(promptArgs.rules) = 2
  /\ ~promptArgs.rules[1].enabled
  /\ promptArgs.rules[1].type = "keyword"
  /\ promptArgs.rules[2].enabled
  /\ promptArgs.rules[2].type = "ignore"
  /\ promptArgs.rules[1].value # promptArgs.rules[2].value
  /\ Len(ruleLines(prompt)) = 1

C27_NoIncrementLost ==
  doneToday <= storedCountToday

\* ----- storage.ts: the cache of extractions, lines 87-108 ----------------------------
MAX_EXTRACTIONS == 50       \* filtered.slice(0, 50)

MaxSaves == 3       \* saveExtraction calls made on top of a cache of earlier ones

\* An extraction: its sourceUrl, a number, and its id, the number of the
\* saveExtraction call that saved it
Extraction(url, id) == [sourceUrl |-> url, id |-> id]

\* the cache after the pages 1..n have been saved one after the other
cacheOf(n) == [i \in 1..n |-> Extraction(n + 1 - i, n + 1 - i)]

\* pages visited early and late, and pages never saved before
Urls ==
  {1, 2, MAX_EXTRACTIONS - 1, MAX_EXTRACTIONS} \cup
  { MAX_EXTRACTIONS + k : k \in 1..MaxSaves }

\* saveExtraction that does not remove the earlier extraction of the URL
saveExtractionKeepsAll(stored, extraction) ==
  LET unshifted == <<extraction>> \o stored
  IN  SubSeq(unshifted, 1, IF Len(unshifted) < MAX_EXTRACTIONS
                             THEN Len(unshifted) ELSE MAX_EXTRACTIONS)

\* lines 94-101: filter, unshift, slice(0, 50)
saveExtractionList(stored, extraction) ==
  LET filtered == SelectSeq(stored, LAMBDA e : e.sourceUrl # extraction.sourceUrl)
      unshifted == <<extraction>> \o filtered
  IN  SubSeq(unshifted, 1, Min({Len(unshifted), MAX_EXTRACTIONS}))

NoExtraction == Extraction(0, 0)

\* lines 105-108: extractions.find((e) => e.sourceUrl === url) || null
getExtractionByUrl(stored, url) ==
  LET at == { i \in 1..Len(stored) : stored[i].sourceUrl = url }
  IN  IF at = {} THEN NoExtraction ELSE stored[Min(at)]

Saved(url, earlier) == [sourceUrl |-> url, earlier |-> earlier]

\* saveExtraction, lines 93-103
saveExtraction(url) ==
  /\ Len(SelectSeq(saveLog, LAMBDA c : ~c.earlier)) < MaxSaves
  /\ extractions' = saveExtractionList(extractions, Extraction(url, Len(saveLog) + 1))
  /\ saveLog' = Append(saveLog, Saved(url, FALSE))
  /\ UNCHANGED <<appVars, aiVars, promptVars, workerVars, deviceVars, analyticsVars, editVars>>

\* Some pages have been extracted before, each once
InitCache ==
  /\ appIdle
  /\ aiIdle
  /\ promptIdle
  /\ workerIdle
  /\ deviceIdle
  /\ analyticsIdle
  /\ editIdle
  /\ \E n \in {0, 1, MAX_EXTRACTIONS - 2, MAX_EXTRACTIONS - 1, MAX_EXTRACTIONS} :
       /\ extractions = cacheOf(n)
       /\ saveLog = [i \in 1..n |-> Saved(i, TRUE)]

NextCache == \E url \in Urls : saveExtraction(url)

SpecCache == InitCache /\ [][NextCache]_vars

\* ----- storage.ts: the device id, lines 9-29 ---------------------------------------
\* What generateDeviceId() can return: four random segments and the clock
GeneratedIds == {"3f1a-9c2e-77b0-d4e5-18c", "a0b1-c2d3-e4f5-0617-18c"}

\* line 22 is reached: the call waits for the storage's answer
getDeviceIdCalled(c) ==
  /\ deviceCall[c].pc = "idle"
  /\ deviceCall' = [deviceCall EXCEPT ![c].pc = "get"]
  /\ UNCHANGED <<deviceIdStore, deviceIds>>
  /\ UNCHANGED <<appVars, aiVars, promptVars, workerVars, cacheVars, analyticsVars, editVars>>

\* lines 22-27: the stored id is returned, or one is generated and its write awaited
getDeviceIdRead(c, generated) ==
  /\ deviceCall[c].pc = "get"
  /\ IF deviceIdStore # ""
       THEN /\ deviceCall' = [deviceCall EXCEPT ![c] = NoDeviceCall]
            /\ deviceIds' = deviceIds \cup {deviceIdStore}
       ELSE /\ deviceCall' = [deviceCall EXCEPT ![c] = [pc |-> "set", deviceId |-> generated]]
            /\ UNCHANGED deviceIds
  /\ UNCHANGED deviceIdStore
  /\ UNCHANGED <<appVars, aiVars, promptVars, workerVars, cacheVars, analyticsVars, editVars>>

\* lines 27-28: the write is done, the generated id is returned
getDeviceIdWrite(c) ==
  /\ deviceCall[c].pc = "set"
  /\ deviceIdStore' = deviceCall[c].deviceId
  /\ deviceIds' = deviceIds \cup {deviceCall[c].deviceId}
  /\ deviceCall' = [deviceCall EXCEPT ![c] = NoDeviceCall]
  /\ UNCHANGED <<appVars, aiVars, promptVars, workerVars, cacheVars, analyticsVars, editVars>>

InitDevice ==
  /\ appIdle
  /\ aiIdle
  /\ promptIdle
  /\ moreIdle

\* track, validateLicense and the bundle code call getDeviceId
NextDevice ==
  \E c \in Callers :
    \/ getDeviceIdCalled(c)
    \/ \E generated \in GeneratedIds : getDeviceIdRead(c, generated)
    \/ getDeviceIdWrite(c)

SpecDevice == InitDevice /\ [][NextDevice]_vars

\* ----- analytics.ts -----------------------------------------------------------------
QUEUE_LIMIT == 500          \* saveToQueue: max 500 events

notAnalytics == <<appVars, aiVars, promptVars, workerVars, cacheVars, deviceVars, editVars>>

\* lines 125-128: result[CONSENT] === true
isAnalyticsEnabled(stored) == stored = "true"

\* lines 133-135
enableAnalytics ==
  /\ consent' = "true"
  /\ UNCHANGED <<queueStore, trackCall, flushCall, disableCall, eventsMade>>
  /\ UNCHANGED notAnalytics

\* line 141: the consent is withdrawn; the clearing of the queue is awaited
disableAnalyticsConsent ==
  /\ disableCall = "idle"
  /\ consent' = "false"
  /\ disableCall' = "clear"
  /\ UNCHANGED <<queueStore, trackCall, flushCall, eventsMade>>
  /\ UNCHANGED notAnalytics

\* line 143: the queue is cleared, disableAnalytics has completed
disableAnalyticsClear ==
  /\ disableCall = "clear"
  /\ queueStore' = <<>>
  /\ disableCall' = "idle"
  /\ UNCHANGED <<consent, trackCall, flushCall, eventsMade>>
  /\ UNCHANGED notAnalytics

\* track is called: line 205 awaits isAnalyticsEnabled()
trackCalled(t) ==
  /\ trackCall[t].pc = "idle"
  /\ eventsMade < MaxEvents
  /\ trackCall' = [trackCall EXCEPT ![t].pc = "consent"]
  /\ UNCHANGED <<consent, queueStore, flushCall, disableCall, eventsMade>>
  /\ UNCHANGED notAnalytics

\* lines 205-213: the consent is read; without it track returns, with it the
\* device id, the session and the settings are awaited
trackConsent(t) ==
  /\ trackCall[t].pc = "consent"
  /\ trackCall' = [trackCall EXCEPT ![t].pc =
                      IF isAnalyticsEnabled(consent) THEN "prepare" ELSE "idle"]
  /\ UNCHANGED <<consent, queueStore, flushCall, disableCall, eventsMade>>
  /\ UNCHANGED notAnalytics

\* lines 209-228: Promise.all has settled; the event is built, or a rejection
\* ends the call in the catch of line 232; saveToQueue awaits getEventQueue()
trackPrepared(t, rejected) ==
  /\ trackCall[t].pc = "prepare"
  /\ IF rejected
       THEN /\ trackCall' = [trackCall EXCEPT ![t] = NoTrack]
            /\ UNCHANGED eventsMade
       ELSE /\ eventsMade < MaxEvents
            /\ eventsMade' = eventsMade + 1
            /\ trackCall' = [trackCall EXCEPT ![t] =
                                [pc |-> "queueGet", queue |-> <<>>, event |-> eventsMade + 1]]
  /\ UNCHANGED <<consent, queueStore, flushCall, disableCall>>
  /\ UNCHANGED notAnalytics

\* lines 159-164: push, and the last 500 if there are more
pushed(queue, event) ==
  LET events == Append(queue, event)
  IN  IF Len(events) > QUEUE_LIMIT
        THEN SubSeq(events, Len(events) - QUEUE_LIMIT + 1, Len(events))
        ELSE events

\* saveToQueue lines 158-166: the queue is read, the event pushed, the write awaited
saveToQueueRead(t) ==
  /\ trackCall[t].pc = "queueGet"
  /\ trackCall' = [trackCall EXCEPT ![t].pc = "queueSet",
                                     ![t].queue = pushed(queueStore, trackCall[t].event)]
  /\ UNCHANGED <<consent, queueStore, flushCall, disableCall, eventsMade>>
  /\ UNCHANGED notAnalytics

\* saveToQueue line 166 and track line 231: the queue is written, and
\* flushQueue() is started without being awaited
saveToQueueWrite(t, f) ==
  /\ trackCall[t].pc = "queueSet"
  /\ flushCall[f].pc = "idle"
  /\ queueStore' = trackCall[t].queue
  /\ trackCall' = [trackCall EXCEPT ![t] = NoTrack]
  /\ flushCall' = [flushCall EXCEPT ![f].pc = "get"]
  /\ UNCHANGED <<consent, disableCall, eventsMade>>
  /\ UNCHANGED notAnalytics

\* the analytics_flush alarm (lines 423-427) or forceFlush (411-413) calls flushQueue
flushCalled(f) ==
  /\ flushCall[f].pc = "idle"
  /\ flushCall' = [flushCall EXCEPT ![f].pc = "get"]
  /\ UNCHANGED <<consent, queueStore, trackCall, disableCall, eventsMade>>
  /\ UNCHANGED notAnalytics

\* flushQueue lines 173-182: the queue is read; if it has events they are
\* sent to the server
flushQueueRead(f) ==
  /\ flushCall[f].pc = "get"
  /\ flushCall' = [flushCall EXCEPT ![f] =
                      IF queueStore = <<>> THEN NoFlush
                      ELSE [pc |-> "fetch", batch |-> queueStore]]
  /\ UNCHANGED <<consent, queueStore, trackCall, disableCall, eventsMade>>
  /\ UNCHANGED notAnalytics

\* lines 184 and 191: the server answers, or the request fails
flushQueueResponse(f, ok) ==
  /\ flushCall[f].pc = "fetch"
  /\ flushCall' = [flushCall EXCEPT ![f] =
                      IF ok THEN [flushCall[f] EXCEPT !.pc = "set"] ELSE NoFlush]
  /\ UNCHANGED <<consent, queueStore, trackCall, disableCall, eventsMade>>
  /\ UNCHANGED notAnalytics

\* lines 186-189: set({ QUEUE: { events: [] }, LAST_SYNC })
flushQueueClear(f) ==
  /\ flushCall[f].pc = "set"
  /\ queueStore' = <<>>
  /\ flushCall' = [flushCall EXCEPT ![f] = NoFlush]
  /\ UNCHANGED <<consent, trackCall, disableCall, eventsMade>>
  /\ UNCHANGED notAnalytics

InitAnalytics ==
  /\ appIdle
  /\ aiIdle
  /\ promptIdle
  /\ moreIdle

NextAnalytics ==
  \/ enableAnalytics
  \/ disableAnalyticsConsent
  \/ disableAnalyticsClear
  \/ \E t \in Trackers :
       \/ trackCalled(t)
       \/ trackConsent(t)
       \/ \E rejected \in BOOLEAN : trackPrepared(t, rejected)
       \/ saveToQueueRead(t)
       \/ \E f \in Flushers : saveToQueueWrite(t, f)
  \/ \E f \in Flushers :
       \/ flushCalled(f)
       \/ flushQueueRead(f)
       \/ \E ok \in BOOLEAN : flushQueueResponse(f, ok)
       \/ flushQueueClear(f)

SpecAnalytics == InitAnalytics /\ [][NextAnalytics]_vars

\* ----- Popup.tsx: the result view, lines 203-236 and 333-338 ---------------------------
\* The popup document 1 is open; what happens to its task list is followed
\* field by field, and an extraction is taken as a whole (lines 108-201).
MaxOps == 5         \* operations on the task list
MaxLists == 2       \* extractions that return tasks
MaxShown == 2       \* tasks in the result view

notResultView ==
  <<today, usageStore, settingsStore, pc, settings, usage, tasks, previousTasks,
    usageLocal, call, doneToday, aiVars, promptVars, workerVars, cacheVars, deviceVars,
    analyticsVars, integrationKeys, emitted>>

\* the task number i of the extraction number k, as extractTasks returns it
Row(k, i) ==
  [id |-> <<k, i>>, title |-> "title", description |-> "description",
   priority |-> "medium", category |-> "action", selected |-> TRUE]

\* what the extraction number k returns
Extracted(k) == [i \in 1..MaxShown |-> Row(k, i)]

TaskIds == { <<k, i>> : k \in 1..MaxLists, i \in 1..MaxShown }

logged(kind) ==
  [kind |-> kind, before |-> rows, shown |-> opsLog.shown, ops |-> opsLog.ops + 1,
   lists |-> opsLog.lists]

inResults == view[1] = "results" /\ opsLog.ops < MaxOps

\* handleExtract lines 108-196, when extractTasks has returned tasks of the
\* page 1: the list is shown, the usage counted, the extraction cached
extractSucceeds ==
  /\ pc[1] = "ready"
  /\ view[1] = "idle"
  /\ canExtract(usageStore, today, settings[1]).allowed
  /\ opsLog.ops < MaxOps
  /\ opsLog.lists < MaxLists
  /\ previousRows' = IF Len(rows) > 0 THEN [set |-> TRUE, rows |-> rows] ELSE previousRows
  /\ rows' = Extracted(opsLog.lists + 1)
  /\ view' = [view EXCEPT ![1] = "results"]
  /\ pageInfo' = "title"
  /\ usageStore' = incrementUsage(getUsage(usageStore, today))
  /\ usage' = [usage EXCEPT ![1] = canExtract(usageStore', today, settingsStore)]
  /\ doneToday' = doneToday + 1
  /\ extractions' = saveExtractionList(extractions, Extraction(1, Len(saveLog) + 1))
  /\ saveLog' = Append(saveLog, Saved(1, FALSE))
  /\ opsLog' = [logged("extract") EXCEPT !.lists = @ + 1]
  /\ UNCHANGED <<today, settingsStore, pc, settings, error, tasks, previousTasks,
                 usageLocal, call, aiVars, promptVars, workerVars, deviceVars,
                 analyticsVars, integrationKeys, emitted>>

\* handleExtract ending in setView('error') (lines 111-126, 157-161, 197-200)
extractFails ==
  /\ pc[1] = "ready"
  /\ view[1] = "idle"
  /\ opsLog.ops < MaxOps
  /\ view' = [view EXCEPT ![1] = "error"]
  /\ error' = [error EXCEPT ![1] = "Extraction failed"]
  /\ opsLog' = [opsLog EXCEPT !.ops = @ + 1]
  /\ UNCHANGED <<rows, previousRows, pageInfo>>
  /\ UNCHANGED notResultView

\* prev.map((t) => (t.id === taskId ? { ...t, [field]: value } : t))
withField(list, taskId, field, value) ==
  [i \in 1..Len(list) |->
     IF list[i].id = taskId THEN [list[i] EXCEPT ![field] = value] ELSE list[i]]

\* setPreviousTasks([...tasks]); setTasks(...)
change(kind, list) ==
  /\ inResults
  /\ previousRows' = [set |-> TRUE, rows |-> rows]
  /\ rows' = list
  /\ opsLog' = logged(kind)
  /\ UNCHANGED <<view, error, pageInfo>>
  /\ UNCHANGED notResultView

\* lines 210-217
handleEditTask(taskId, field, value) ==
  /\ \E i \in 1..Len(rows) : rows[i].id = taskId
  /\ change("edit", withField(rows, taskId, field, value))

\* lines 219-224
handleChangeTaskPriority(taskId, priority) ==
  /\ \E i \in 1..Len(rows) : rows[i].id = taskId
  /\ change("priority", withField(rows, taskId, "priority", priority))

\* lines 226-231
handleChangeTaskCategory(taskId, category) ==
  /\ \E i \in 1..Len(rows) : rows[i].id = taskId
  /\ change("category", withField(rows, taskId, "category", category))

\* lines 233-236
handleDeleteTask(taskId) ==
  /\ \E i \in 1..Len(rows) : rows[i].id = taskId
  /\ change("delete", SelectSeq(rows, LAMBDA t : t.id # taskId))

\* lines 203-208; the button is rendered only while previousTasks is set (line 497)
handleUndo ==
  /\ inResults
  /\ previousRows.set
  /\ rows' = previousRows.rows
  /\ previousRows' = NoRows
  /\ opsLog' = logged("undo")
  /\ UNCHANGED <<view, error, pageInfo>>
  /\ UNCHANGED notResultView

\* lines 333-338: handleReset, from the result view or the error view
handleResetView ==
  /\ view[1] \in {"results", "error"}
  /\ opsLog.ops < MaxOps
  /\ view' = [view EXCEPT ![1] = "idle"]
  /\ rows' = <<>>
  /\ error' = [error EXCEPT ![1] = ""]
  /\ opsLog' = [logged("reset") EXCEPT !.shown = IF view[1] = "results" THEN rows ELSE @]
  /\ UNCHANGED <<previousRows, pageInfo>>
  /\ UNCHANGED notResultView

\* The popup document 1 has loaded the settings s (lines 56-106) and shows
\* the given view
popupReady(s, shown) ==
  /\ today = 1
  /\ usageStore = NoUsage
  /\ settingsStore = s
  /\ pc = [p \in Popups |-> IF p = 1 THEN "ready" ELSE "closed"]
  /\ view = [p \in Popups |-> IF p = 1 THEN shown ELSE "idle"]
  /\ settings = [p \in Popups |-> IF p = 1 THEN s ELSE NoSettings]
  /\ usage = [p \in Popups |-> InitialUsage]
  /\ error = [p \in Popups |-> ""]
  /\ tasks = [p \in Popups |-> <<>>]
  /\ previousTasks = [p \in Popups |-> NoTasks]
  /\ usageLocal = [p \in Popups |-> NoUsage]
  /\ call = [p \in Popups |-> NoCall]
  /\ doneToday = 0

InitUndo ==
  /\ popupReady([DEFAULT_SETTINGS EXCEPT !.openaiApiKey = "sk-o"], "idle")
  /\ aiIdle
  /\ promptIdle
  /\ moreIdle

NextUndo ==
  \/ extractSucceeds
  \/ extractFails
  \/ \E taskId \in TaskIds :
       \/ \E field \in {"title", "description"} : handleEditTask(taskId, field, "edited")
       \/ handleChangeTaskPriority(taskId, "high")
       \/ handleChangeTaskCategory(taskId, "follow-up")
       \/ handleDeleteTask(taskId)
  \/ handleUndo
  \/ handleResetView

SpecUndo == InitUndo /\ [][NextUndo]_vars

\* ----- export.ts and Popup.tsx: handleExport, lines 272-327 ---------------------
\* TaskPriority, and a value outside of it, which the normalization lets through
Priorities == {"high", "medium", "low", "urgent"}

Integrations == {"notion", "todoist", "clickup"}

\* the destinations handleExport has a case for
Destinations == {"clipboard", "markdown"} \cup Integrations

\* the lists the result view can show: tasks of one extraction, with any
\* priority and any selection
Shown ==
  UNION { { [i \in 1..n |-> [Row(1, i) EXCEPT !.priority = f[i].priority,
                                              !.selected = f[i].selected]] :
            f \in [1..n -> [priority : Priorities, selected : BOOLEAN]] } :
          n \in 1..MaxShown }

\* tasks.filter((t) => t.selected)
selectedTasks(list) == SelectSeq(list, LAMBDA t : t.selected)

\* the tasks an output is made of, in the order of the output
taskIds(list) == [i \in 1..Len(list) |-> list[i].id]

\* a formatter that does not filter
formatAllAsPlainText(list) == taskIds(list)

\* export.ts lines 5-16: one line per selected task, joined in order
formatAsPlainText(list) == taskIds(selectedTasks(list))

\* export.ts lines 19-54: the selected tasks of high, then of medium, then of
\* low priority; a selected task of another priority is in no group
formatAsMarkdown(list) ==
  LET group(p) == SelectSeq(selectedTasks(list), LAMBDA t : t.priority = p)
  IN  taskIds(group("high") \o group("medium") \o group("low"))

\* export.ts lines 76-134, 137-179, 182-220, with the keys configured: one
\* awaited request per selected task; the request number rejectAt is rejected
\* (0: none is), which ends the loop
requests(list, rejectAt) ==
  LET all == taskIds(selectedTasks(list))
  IN  IF rejectAt \in 1..Len(all) THEN SubSeq(all, 1, rejectAt) ELSE all

notExport ==
  <<today, usageStore, settingsStore, pc, settings, usage, tasks, previousTasks,
    usageLocal, call, doneToday, aiVars, promptVars, workerVars, cacheVars, deviceVars,
    analyticsVars, previousRows, opsLog, pageInfo, integrationKeys>>

\* setTasks of a selection handler
select(list) ==
  /\ view[1] = "results"
  /\ rows' = list
  /\ UNCHANGED <<view, error, emitted>>
  /\ UNCHANGED notExport

\* lines 258-262
toggleTask(taskId) ==
  /\ \E i \in 1..Len(rows) : rows[i].id = taskId
  /\ select([i \in 1..Len(rows) |->
               IF rows[i].id = taskId THEN [rows[i] EXCEPT !.selected = ~@] ELSE rows[i]])

\* lines 264-266
selectAll == select([i \in 1..Len(rows) |-> [rows[i] EXCEPT !.selected = TRUE]])

\* lines 268-270
deselectAll == select([i \in 1..Len(rows) |-> [rows[i] EXCEPT !.selected = FALSE]])

\* lines 248-252
selectByPriority(priority) ==
  select([i \in 1..Len(rows) |-> [rows[i] EXCEPT !.selected = (rows[i].priority = priority)]])

\* the end of a handleExport call
exported(destination, called, out, rejected, endView, message) ==
  /\ emitted' = [destination |-> destination, from |-> rows, isPro |-> settings[1].isPro,
                 called |-> called, out |-> out, rejected |-> rejected, ended |-> endView]
  /\ view' = [view EXCEPT ![1] = endView]
  /\ error' = [error EXCEPT ![1] = message]
  /\ UNCHANGED rows
  /\ UNCHANGED notExport

\* lines 272-327.  rejectAt: the request (for a formatter: the clipboard write)
\* that is rejected, 0 for none
handleExport(destination, rejectAt) ==
  /\ pc[1] = "ready"
  /\ view[1] = "results"
  /\ pageInfo # "null"
  /\ IF Len(selectedTasks(rows)) = 0
        THEN exported(destination, FALSE, <<>>, FALSE, "results",
                      "Please select at least one task to export")
      ELSE IF destination \in Integrations /\ ~settings[1].isPro
        THEN exported(destination, FALSE, <<>>, FALSE, "error",
                      "export is a Pro feature. Upgrade to unlock.")
      ELSE IF destination \in Integrations /\ destination \notin integrationKeys
        THEN exported(destination, TRUE, <<>>, FALSE, "error", "Please configure")
      ELSE LET out == CASE destination = "clipboard" -> formatAsPlainText(rows)
                        [] destination = "markdown" -> formatAsMarkdown(rows)
                        [] OTHER -> requests(rows, rejectAt)
               rejected == IF destination \in Integrations
                             THEN rejectAt \in 1..Len(selectedTasks(rows))
                             ELSE rejectAt > 0
           IN  IF rejected
                 THEN exported(destination, TRUE, out, TRUE, "error", "Export failed")
                 ELSE exported(destination, TRUE, out, FALSE, "results", error[1])

\* The result view shows a list of tasks; the popup's settings are those of a
\* free or a Pro user, with the integrations configured or not
InitExport ==
  /\ \E isPro \in BOOLEAN :
       popupReady([DEFAULT_SETTINGS EXCEPT !.openaiApiKey = "sk-o", !.isPro = isPro],
                  "results")
  /\ aiIdle
  /\ promptIdle
  /\ workerIdle
  /\ cacheIdle
  /\ deviceIdle
  /\ analyticsIdle
  /\ rows \in Shown
  /\ previousRows = NoRows
  /\ opsLog = NoOps
  /\ pageInfo = "title"
  /\ integrationKeys \in {{}, Integrations}
  /\ emitted = NoExport

NextExport ==
  \/ \E taskId \in TaskIds : toggleTask(taskId)
  \/ selectAll
  \/ deselectAll
  \/ \E priority \in Priorities \ {"urgent"} : selectByPriority(priority)
  \/ \E destination \in Destinations, rejectAt \in 0..MaxShown :
       handleExport(destination, rejectAt)

SpecExport == InitExport /\ [][NextExport]_vars

\* ----- the claim on license activation ---------------------------------------
\* C25: an external LICENSE_ACTIVATED message makes the user Pro and stores the
\* license key only if its sender's origin is https://startvest.ai or
\* https://www.startvest.ai; a message without origin or from any other origin
\* is answered 'Unauthorized origin' and leaves the stored settings as they are.
C25_LicenseOnlyFromAllowedOrigins ==
  [][/\ inbox' # NoMessage => inbox'.origin \in allowedOrigins
     /\ license' # license => inbox.origin \in allowedOrigins
     /\ (reply' # reply /\ reply'.error = "Unauthorized origin") =>
          (settingsStore' = settingsStore /\ license' = license)]_vars

\* ----- the claim on the cache of extractions --------------------------------
\* the call that saved url last, 0 if it was never saved
latestSave(url) ==
  LET at == { k \in 1..Len(saveLog) : saveLog[k].sourceUrl = url }
  IN  IF at = {} THEN 0 ELSE MaxOf(at)

\* the other URLs saved after url was saved last
savedAfter(url) ==
  { saveLog[k].sourceUrl : k \in (latestSave(url) + 1)..Len(saveLog) }

\* C28: after any sequence of saveExtraction calls the cache holds at most 50
\* entries, at most one per sourceUrl and that the most recently saved one, in
\* the order most recently saved first; getExtractionByUrl(u) returns the
\* latest extraction saved for u as long as fewer than 50 other URLs were
\* saved after it.
C28_CacheBoundedUniqueRecentFirst ==
  /\ Len(extractions) <= MAX_EXTRACTIONS
  /\ \A i, j \in 1..Len(extractions) :
       i < j => /\ extractions[i].sourceUrl # extractions[j].sourceUrl
                /\ extractions[i].id > extractions[j].id
  /\ \A i \in 1..Len(extractions) :
       extractions[i].id = latestSave(extractions[i].sourceUrl)
  /\ \A k \in 1..Len(saveLog) :
       LET u == saveLog[k].sourceUrl
       IN  Cardinality(savedAfter(u)) < MAX_EXTRACTIONS =>
             getExtractionByUrl(extractions, u) = Extraction(u, latestSave(u))

\* the cache is full, a page saved before has been saved again and another
\* one has dropped out of the cache
C28_Witness ==
  /\ Len(extractions) = MAX_EXTRACTIONS
  /\ \E k \in 1..Len(saveLog) : ~saveLog[k].earlier /\ latestSave(saveLog[k].sourceUrl) > k
  /\ \E k \in 1..Len(saveLog) :
       getExtractionByUrl(extractions, saveLog[k].sourceUrl) = NoExtraction

\* ----- the claim on the device id ---------------------------------------------
\* C30: the device id is stable: every getDeviceId call, overlapping ones
\* before an id is stored included, returns the same identifier, the one that
\* is in the storage from then on.
C30_DeviceIdStable ==
  /\ Cardinality(deviceIds) <= 1
  /\ deviceIds # {} => deviceIds = {deviceIdStore}

\* ----- the claims on analytics --------------------------------------------------
\* C23: analytics is strictly opt-in: while the stored consent is not exactly
\* true, no event is added to the queue and no event is sent to the server,
\* however track, the flush alarm, forceFlush, enableAnalytics and
\* disableAnalytics interleave.
C23_NothingWithoutConsent ==
  [][~isAnalyticsEnabled(consent) =>
       /\ \A i \in 1..Len(queueStore') : queueStore'[i] \in Range(queueStore)
       /\ \A f \in Flushers :
            flushCall'[f].pc = "fetch" => flushCall[f].pc = "fetch"]_vars

\* C24: once disableAnalytics has completed the stored queue is empty, and it
\* stays empty until enableAnalytics is called, also when a track call was
\* under way while disableAnalytics ran.
C24_DisabledQueueStaysEmpty ==
  (consent = "false" /\ disableCall = "idle") => queueStore = <<>>

\* C29: a flush that succeeds takes out of the queue the events of the batch
\* it sent and no others, so an event track has queued while the request was
\* in flight is still queued afterwards; a flush that fails leaves the queue
\* as it is.
C29_FlushRemovesOnlyItsBatch ==
  [][\A f \in Flushers :
       /\ (flushCall[f].pc = "set" /\ flushCall'[f].pc = "idle") =>
            queueStore' = SelectSeq(queueStore,
                                    LAMBDA e : e \notin Range(flushCall[f].batch))
       /\ (flushCall[f].pc = "fetch" /\ flushCall'[f].pc = "idle") =>
            queueStore' = queueStore]_vars

\* ----- the claims on the result view ---------------------------------------------
\* C22: undo restores the previous state: invoked after an edit of a title or
\* a description, a change of priority or category, a deletion or a
\* re-extraction, it sets the task list to the list as it was just before that
\* operation (for a re-extraction: the list before it, or the one the result
\* view showed last), and then no undo is available until the next such
\* operation.
C22_UndoRestoresPrevious ==
  [][opsLog'.kind = "undo" =>
       /\ opsLog.kind \in {"edit", "priority", "category", "delete"} =>
            rows' = opsLog.before
       /\ opsLog.kind = "extract" =>
            (rows' = opsLog.before \/ rows' = opsLog.shown)
       /\ ~previousRows'.set]_vars

\* ----- the claims on exports -----------------------------------------------------
\* the selected tasks of the list the export was called on, in list order
chosen == taskIds(selectedTasks(emitted.from))

\* where the task is in the list the export was called on
place(id) == CHOOSE i \in 1..Len(emitted.from) : emitted.from[i].id = id

\* the place of a priority in the Markdown document
rank(priority) ==
  CASE priority = "high" -> 1 [] priority = "medium" -> 2 [] priority = "low" -> 3
    [] OTHER -> 0

isPrefix(a, b) == Len(a) <= Len(b) /\ a = SubSeq(b, 1, Len(a))

nonProIntegration == emitted.destination \in Integrations /\ ~emitted.isPro

====
